---- MODULE Spec2Model ----
(***************************************************************************)
(* A model of the Monkey interpreter of this repository: the Pratt parser  *)
(* (package parser) and the tree-walking evaluator (package evaluator).    *)
(*                                                                         *)
(* The parser reads a token stream (the lexer's output) and builds an AST; *)
(* the evaluator walks an AST against an environment chain.  Both are      *)
(* recursive Go functions; they are written here as recursive operators    *)
(* that thread the state the Go code mutates (the parser's position and    *)
(* error log; the evaluator's heap of environments, allocation counter and *)
(* an evaluation trace).  The loops of ParseProgram and evalProgram are    *)
(* the actions of the state machine: one step per top-level statement.     *)
(***************************************************************************)
EXTENDS Integers, Sequences, FiniteSets, TLC

VARIABLES
    toks,      \* the token stream the lexer yields before EOF
    pos,       \* index of curToken in toks (peekToken is at pos + 1)
    errors,    \* Parser.errors
    program,   \* ast.Program.Statements built so far by ParseProgram
    ppc,       \* where the parser is: "parsing", "skip", "done", "off"
    prog,      \* the ast.Program under evaluation
    idx,       \* index of the next top-level statement of evalProgram / evalStatements
    envs,      \* heap of object.Environment, envs[1] is the global one
    nextId,    \* allocation counter: identity of the next heap object
    trace,     \* ghost: the Eval calls made so far (enter / exit events)
    result,    \* evalProgram's `result` variable, its return value once epc = "done"
    epc,       \* where the evaluator is: "idle", "run", "done", "panic"
    definitions, \* DefineMacros' `definitions`: positions (from 0) of the macro definitions
    original,  \* ghost: program.Statements as DefineMacros received them
    mpc        \* where DefineMacros is: "off", "scan", "remove", "done", "panic"

vars == <<toks, pos, errors, program, ppc, prog, idx, envs, nextId, trace, result, epc,
          definitions, original, mpc>>

parserVars == <<toks, pos, errors, program, ppc>>
evalVars == <<prog, idx, envs, nextId, trace, result, epc>>
macroVars == <<definitions, original, mpc>>

----------------------------------------------------------------------------
(* Bounds of the model.                                                    *)

\* integer literals of the evaluated programs range over 0 .. MaxInt
MaxInt == 2

\* token streams of every shape are enumerated up to this length
MaxLen == 2

----------------------------------------------------------------------------
(* Tokens (package token).  A token is its type and its literal; token.X   *)
(* is written T_X.                                                         *)

Tk(t, l) == [type |-> t, lit |-> l, digits |-> <<>>]

T_EOF == Tk("EOF", "")
T_ILLEGAL == Tk("ILLEGAL", "@")
T_IDENT(name) == Tk("IDENT", name)
\* the literal of an INT token is its run of decimal digits, held in digits
T_INT(ds) == [type |-> "INT", lit |-> "int", digits |-> ds]
Punct(s) == Tk(s, s)

T_LET == Tk("LET", "let")
T_RETURN == Tk("RETURN", "return")
T_IF == Tk("IF", "if")
T_ELSE == Tk("ELSE", "else")
T_FUNCTION == Tk("FUNCTION", "fn")
T_TRUE == Tk("TRUE", "true")
T_FALSE == Tk("FALSE", "false")
T_ASSIGN == Punct("=")
T_SEMICOLON == Punct(";")
T_COMMA == Punct(",")
T_LPAREN == Punct("(")
T_RPAREN == Punct(")")
T_LBRACE == Punct("{")
T_RBRACE == Punct("}")
T_BANG == Punct("!")
T_MINUS == Punct("-")
T_PLUS == Punct("+")
T_ASTERISK == Punct("*")
T_SLASH == Punct("/")
T_LT == Punct("<")
T_GT == Punct(">")
T_EQ == Punct("==")
T_NOT_EQ == Punct("!=")

----------------------------------------------------------------------------
(* AST nodes (package ast).  Nil is Go's nil interface value.              *)

Nil == [kind |-> "nil"]
\* a nil *ast.LetStatement converted to the ast.Statement interface: the
\* interface value is not nil, the pointer inside it is
NilLetStatement == [kind |-> "NilLetStatement"]

Identifier(name) == [kind |-> "Identifier", Value |-> name]
IntegerLiteral(v) == [kind |-> "IntegerLiteral", Value |-> v]
Boolean(b) == [kind |-> "Boolean", Value |-> b]
PrefixExpression(op, right) == [kind |-> "PrefixExpression", Operator |-> op, Right |-> right]
InfixExpression(op, left, right) ==
    [kind |-> "InfixExpression", Operator |-> op, Left |-> left, Right |-> right]
IfExpression(cond, cons, alt) ==
    [kind |-> "IfExpression", Condition |-> cond, Consequence |-> cons, Alternative |-> alt]
\* closed is a ghost field: whether the block ended at its "}" (the Go node
\* does not record it)
BlockStatement(stmts, closed) == [kind |-> "BlockStatement", Statements |-> stmts, closed |-> closed]
Block(stmts) == BlockStatement(stmts, TRUE)
\* ParamTypes is a ghost field: the token type each parameter was built from
FunctionLiteral(params, ptypes, body) ==
    [kind |-> "FunctionLiteral", Parameters |-> params, ParamTypes |-> ptypes, Body |-> body]
Fn(params, body) == FunctionLiteral(params, [k \in DOMAIN params |-> "IDENT"], body)
CallExpression(fn, args) == [kind |-> "CallExpression", Function |-> fn, Arguments |-> args]
LetStatement(name, value) == [kind |-> "LetStatement", Name |-> name, Value |-> value]
ReturnStatement(value) == [kind |-> "ReturnStatement", ReturnValue |-> value]
ExpressionStatement(e) == [kind |-> "ExpressionStatement", Expression |-> e]

----------------------------------------------------------------------------
(* The parser (package parser).  A parser state p holds the fields the Go  *)
(* code mutates: pos (curToken is toks[pos], peekToken toks[pos + 1]) and  *)
(* errors; div records that the call never returns (the loop that skips to *)
(* the next ";" never meets one).  Every parse function returns the parser *)
(* state it leaves and the node it yields.                                 *)

LOWEST == 1
EQUALS == 2
LESSGREATER == 3
SUM == 4
PRODUCT == 5
PREFIX == 6
CALL == 7

\* the precedence table; 0 stands for a type the table does not hold
\* precedences with "*" and "/" entered at SUM
precedences_flat(t) ==
    CASE t \in {"==", "!="} -> EQUALS
      [] t \in {"<", ">"} -> LESSGREATER
      [] t \in {"+", "-", "/", "*"} -> SUM
      [] t = "(" -> CALL
      [] OTHER -> 0

precedences(t) ==
    CASE t \in {"==", "!="} -> EQUALS
      [] t \in {"<", ">"} -> LESSGREATER
      [] t \in {"+", "-"} -> SUM
      [] t \in {"/", "*"} -> PRODUCT
      [] t = "(" -> CALL
      [] OTHER -> 0

\* the token types that New registers a prefix / an infix function for
prefixParseFns == {"IDENT", "INT", "!", "-", "TRUE", "FALSE", "(", "IF", "FUNCTION"}
infixParseFns == {"+", "-", "/", "*", "==", "!=", "<", ">", "("}

\* the lexer: after the last token of the source it returns EOF for ever
NextToken(i) == IF i \in 1..Len(toks) THEN toks[i] ELSE T_EOF

curToken(p) == NextToken(p.pos)
peekToken(p) == NextToken(p.pos + 1)

\* once curToken and peekToken are both EOF, reading on changes neither
nextToken(p) == IF p.pos > Len(toks) THEN p ELSE [p EXCEPT !.pos = p.pos + 1]

curTokenIs(p, t) == curToken(p).type = t
peekTokenIs(p, t) == peekToken(p).type = t

peekError(p, t) ==
    [p EXCEPT !.errors =
        Append(p.errors, <<"expected next token to be", t, "got", peekToken(p).type, "instead">>)]

noPrefixParseFnError(p, t) ==
    [p EXCEPT !.errors = Append(p.errors, <<"no prefix parse function for", t, "found">>)]

expectPeek(p, t) ==
    IF peekTokenIs(p, t)
    THEN [p |-> nextToken(p), ok |-> TRUE]
    ELSE [p |-> peekError(p, t), ok |-> FALSE]

peekPrecedence(p) ==
    IF precedences(peekToken(p).type) # 0 THEN precedences(peekToken(p).type) ELSE LOWEST

curPrecedence(p) ==
    IF precedences(curToken(p).type) # 0 THEN precedences(curToken(p).type) ELSE LOWEST

R(p, n) == [p |-> p, n |-> n]

\* strconv.ParseInt(literal, 0, 64) on a run of decimal digits: base 0 reads a
\* leading "0" as the octal prefix; the value must fit in 63 bits
MaxInt64Digits == <<9, 2, 2, 3, 3, 7, 2, 0, 3, 6, 8, 5, 4, 7, 7, 5, 8, 0, 7>>

RECURSIVE StripZeros(_)
StripZeros(ds) == IF Len(ds) > 1 /\ ds[1] = 0 THEN StripZeros(Tail(ds)) ELSE ds

RECURSIVE DigitsLeq(_, _)
DigitsLeq(a, b) ==
    IF Len(a) # Len(b) THEN Len(a) < Len(b)
    ELSE IF a = <<>> THEN TRUE
    ELSE IF a[1] # b[1] THEN a[1] < b[1]
    ELSE DigitsLeq(Tail(a), Tail(b))

RECURSIVE Horner(_, _, _)
Horner(ds, base, acc) ==
    IF ds = <<>> THEN acc ELSE Horner(Tail(ds), base, acc * base + ds[1])

ParseInt(ds) ==
    IF Len(ds) > 1 /\ ds[1] = 0
    THEN LET o == StripZeros(Tail(ds))
         IN  IF (\A k \in DOMAIN o : o[k] <= 7) /\ Len(o) <= 21
             THEN [ok |-> TRUE, value |-> Horner(o, 8, 0)]
             ELSE [ok |-> FALSE, value |-> 0]
    ELSE IF DigitsLeq(ds, MaxInt64Digits)
         THEN [ok |-> TRUE, value |-> Horner(ds, 10, 0)]
         ELSE [ok |-> FALSE, value |-> 0]

parseIdentifier(p) == R(p, Identifier(curToken(p).lit))

parseIntegerLiteral(p) ==
    LET v == ParseInt(curToken(p).digits)
    IN  IF ~v.ok
        THEN R([p EXCEPT !.errors =
                    Append(p.errors, <<"could not parse", curToken(p).digits, "as integer">>)], Nil)
        ELSE R(p, IntegerLiteral(v.value))

parseBoolean(p) == R(p, Boolean(curTokenIs(p, "TRUE")))

\* for !p.curTokenIs(token.SEMICOLON) { p.nextToken() }
RECURSIVE skipToSemicolon(_)
skipToSemicolon(p) ==
    IF curTokenIs(p, ";") THEN p
    ELSE IF nextToken(p) = p THEN [p EXCEPT !.div = TRUE]
    ELSE skipToSemicolon(nextToken(p))

parseLetStatement(p) ==
    LET e1 == expectPeek(p, "IDENT")
    IN  IF ~e1.ok THEN R(e1.p, NilLetStatement)
        ELSE LET name == Identifier(curToken(e1.p).lit)
                 e2 == expectPeek(e1.p, "=")
             IN  IF ~e2.ok THEN R(e2.p, NilLetStatement)
                 ELSE R(skipToSemicolon(e2.p), LetStatement(name, Nil))

parseReturnStatement(p) == R(skipToSemicolon(nextToken(p)), ReturnStatement(Nil))

\* the recursive calls of the parse functions: parseExpression(precedence)
\* and parseStatement() on the parser state p
RECURSIVE Parse(_, _, _)

parsePrefixExpression(p) ==
    LET r == Parse("parseExpression", nextToken(p), PREFIX)
    IN  R(r.p, PrefixExpression(curToken(p).lit, r.n))

parseInfixExpression(p, left) ==
    LET r == Parse("parseExpression", nextToken(p), curPrecedence(p))
    IN  R(r.p, InfixExpression(curToken(p).lit, left, r.n))

parseGroupedExpression(p) ==
    LET exp == Parse("parseExpression", nextToken(p), LOWEST)
    IN  IF exp.p.div THEN exp
        ELSE LET e == expectPeek(exp.p, ")")
             IN  IF ~e.ok THEN R(e.p, Nil) ELSE R(e.p, exp.n)

\* the for loop of parseBlockStatement
RECURSIVE parseBlockStatementLoop(_, _)
parseBlockStatementLoop(p, stmts) ==
    IF curTokenIs(p, "}") \/ curTokenIs(p, "EOF")
    THEN R(p, BlockStatement(stmts, curTokenIs(p, "}")))
    ELSE LET s == Parse("parseStatement", p, 0)
         IN  IF s.p.div THEN s
             ELSE parseBlockStatementLoop(nextToken(s.p),
                      IF s.n.kind # "nil" THEN Append(stmts, s.n) ELSE stmts)

parseBlockStatement(p) == parseBlockStatementLoop(nextToken(p), <<>>)

parseIfExpression(p) ==
    LET e1 == expectPeek(p, "(")
    IN  IF ~e1.ok THEN R(e1.p, Nil)
        ELSE
        LET c == Parse("parseExpression", nextToken(e1.p), LOWEST)
        IN  IF c.p.div THEN c
            ELSE
            LET e2 == expectPeek(c.p, ")")
            IN  IF ~e2.ok THEN R(e2.p, Nil)
                ELSE
                LET e3 == expectPeek(e2.p, "{")
                IN  IF ~e3.ok THEN R(e3.p, Nil)
                    ELSE
                    LET b == parseBlockStatement(e3.p)
                    IN  IF b.p.div THEN b
                        ELSE IF peekTokenIs(b.p, "ELSE")
                        THEN LET e4 == expectPeek(nextToken(b.p), "{")
                             IN  IF ~e4.ok THEN R(e4.p, Nil)
                                 ELSE LET a == parseBlockStatement(e4.p)
                                      IN  R(a.p, IfExpression(c.n, b.n, a.n))
                        ELSE R(b.p, IfExpression(c.n, b.n, Nil))

\* the list is the node; a nil slice (the closing ")" is missing) is the empty list
RECURSIVE parseFunctionParametersLoop(_, _, _)
parseFunctionParametersLoop(p, identifiers, types) ==
    IF peekTokenIs(p, ",")
    THEN LET q == nextToken(nextToken(p))
         IN  parseFunctionParametersLoop(q, Append(identifiers, Identifier(curToken(q).lit)),
                                         Append(types, curToken(q).type))
    ELSE LET e == expectPeek(p, ")")
         IN  IF ~e.ok THEN R(e.p, [params |-> <<>>, types |-> <<>>])
             ELSE R(e.p, [params |-> identifiers, types |-> types])

parseFunctionParameters(p) ==
    IF peekTokenIs(p, ")") THEN R(nextToken(p), [params |-> <<>>, types |-> <<>>])
    ELSE LET q == nextToken(p)
         IN  parseFunctionParametersLoop(q, <<Identifier(curToken(q).lit)>>, <<curToken(q).type>>)

parseFunctionLiteral(p) ==
    LET e1 == expectPeek(p, "(")
    IN  IF ~e1.ok THEN R(e1.p, Nil)
        ELSE
        LET ps == parseFunctionParameters(e1.p)
            e2 == expectPeek(ps.p, "{")
        IN  IF ~e2.ok THEN R(e2.p, Nil)
            ELSE LET b == parseBlockStatement(e2.p)
                 IN  R(b.p, FunctionLiteral(ps.n.params, ps.n.types, b.n))

RECURSIVE parseCallArgumentsLoop(_, _)
parseCallArgumentsLoop(p, args) ==
    IF peekTokenIs(p, ",")
    THEN LET a == Parse("parseExpression", nextToken(nextToken(p)), LOWEST)
         IN  IF a.p.div THEN a ELSE parseCallArgumentsLoop(a.p, Append(args, a.n))
    ELSE LET e == expectPeek(p, ")")
         IN  IF ~e.ok THEN R(e.p, <<>>) ELSE R(e.p, args)

parseCallArguments(p) ==
    IF peekTokenIs(p, ")") THEN R(nextToken(p), <<>>)
    ELSE LET a == Parse("parseExpression", nextToken(p), LOWEST)
         IN  IF a.p.div THEN a ELSE parseCallArgumentsLoop(a.p, <<a.n>>)

parseCallExpression(p, function) ==
    LET a == parseCallArguments(p)
    IN  R(a.p, CallExpression(function, a.n))

\* p.prefixParseFns[p.curToken.Type]()
prefixParseFn(p) ==
    CASE curTokenIs(p, "IDENT") -> parseIdentifier(p)
      [] curTokenIs(p, "INT") -> parseIntegerLiteral(p)
      [] curTokenIs(p, "!") \/ curTokenIs(p, "-") -> parsePrefixExpression(p)
      [] curTokenIs(p, "TRUE") \/ curTokenIs(p, "FALSE") -> parseBoolean(p)
      [] curTokenIs(p, "(") -> parseGroupedExpression(p)
      [] curTokenIs(p, "IF") -> parseIfExpression(p)
      [] curTokenIs(p, "FUNCTION") -> parseFunctionLiteral(p)

\* p.infixParseFns[p.curToken.Type](left)
infixParseFn(p, left) ==
    IF curTokenIs(p, "(") THEN parseCallExpression(p, left) ELSE parseInfixExpression(p, left)

\* the for loop of parseExpression
RECURSIVE parseExpressionLoop(_, _, _)
parseExpressionLoop(p, leftExp, precedence) ==
    IF ~peekTokenIs(p, ";") /\ precedence < peekPrecedence(p)
    THEN IF peekToken(p).type \notin infixParseFns THEN R(p, leftExp)
         ELSE LET r == infixParseFn(nextToken(p), leftExp)
              IN  IF r.p.div THEN r ELSE parseExpressionLoop(r.p, r.n, precedence)
    ELSE R(p, leftExp)

parseExpression(p, precedence) ==
    IF curToken(p).type \notin prefixParseFns
    THEN R(noPrefixParseFnError(p, curToken(p).type), Nil)
    ELSE LET l == prefixParseFn(p)
         IN  IF l.p.div THEN l ELSE parseExpressionLoop(l.p, l.n, precedence)

parseExpressionStatement(p) ==
    LET e == Parse("parseExpression", p, LOWEST)
    IN  IF e.p.div THEN e
        ELSE R(IF peekTokenIs(e.p, ";") THEN nextToken(e.p) ELSE e.p, ExpressionStatement(e.n))

parseStatement(p) ==
    CASE curTokenIs(p, "LET") -> parseLetStatement(p)
      [] curTokenIs(p, "RETURN") -> parseReturnStatement(p)
      [] OTHER -> parseExpressionStatement(p)

Parse(f, p, precedence) ==
    IF f = "parseExpression" THEN parseExpression(p, precedence) ELSE parseStatement(p)

\* the Parser as the state variables hold it
parser == [pos |-> pos, errors |-> errors, div |-> FALSE]

\* one iteration of ParseProgram's loop; when parseStatement never returns
\* the parser is left in the skipping loop
ParseProgramStep ==
    /\ ppc = "parsing"
    /\ ~curTokenIs(parser, "EOF")
    /\ LET s == Parse("parseStatement", parser, 0)
       IN  IF s.p.div
           THEN /\ ppc' = "skip"
                /\ pos' = s.p.pos
                /\ errors' = s.p.errors
                /\ UNCHANGED program
           ELSE /\ program' = IF s.n.kind # "nil" THEN Append(program, s.n) ELSE program
                /\ pos' = nextToken(s.p).pos
                /\ errors' = s.p.errors
                /\ UNCHANGED ppc
    /\ UNCHANGED <<macroVars, toks, evalVars>>

\* ParseProgram leaves its loop and returns the program
ParseProgramReturn ==
    /\ ppc = "parsing"
    /\ curTokenIs(parser, "EOF")
    /\ ppc' = "done"
    /\ UNCHANGED <<macroVars, toks, pos, errors, program, evalVars>>

\* one iteration of the loop that skips to the next ";", past the end of the
\* source: it reads EOF again
SkipToSemicolonStep ==
    /\ ppc = "skip"
    /\ ~curTokenIs(parser, ";")
    /\ pos' = nextToken(parser).pos
    /\ UNCHANGED <<macroVars, toks, errors, program, ppc, evalVars>>


----------------------------------------------------------------------------
(* Runtime values (package object).  Every heap object carries its         *)
(* identity, id: Go compares objects by pointer.  NilObject is Go's nil    *)
(* object.Object.                                                          *)

INTEGER_OBJ == "INTEGER"
BOOLEAN_OBJ == "BOOLEAN"
NULL_OBJ == "NULL"
RETURN_VALUE_OBJ == "RETURN_VALUE"
ERROR_OBJ == "ERROR"
FUNCTION_OBJ == "FUNCTION"

NilObject == [type |-> "nil", id |-> 0]

NULL == [type |-> NULL_OBJ, id |-> 1]
TRUE_OBJ == [type |-> BOOLEAN_OBJ, id |-> 2, Value |-> TRUE]
FALSE_OBJ == [type |-> BOOLEAN_OBJ, id |-> 3, Value |-> FALSE]

\* the identity of the first object an evaluation allocates
FirstId == 4

Integer(id, v) == [type |-> INTEGER_OBJ, id |-> id, Value |-> v]
ReturnValue(id, v) == [type |-> RETURN_VALUE_OBJ, id |-> id, Value |-> v]
Error(id, m) == [type |-> ERROR_OBJ, id |-> id, Message |-> m]
\* BodyPath is a ghost field: the place of the body in the program
Function(id, params, body, env, bodyPath) ==
    [type |-> FUNCTION_OBJ, id |-> id, Parameters |-> params, Body |-> body, Env |-> env,
     BodyPath |-> bodyPath]

\* pointer equality of two objects
SameObject(a, b) == a.id = b.id

----------------------------------------------------------------------------
(* Environments.  envs is the heap of environments, an environment is its  *)
(* index; store maps the names it binds, outer is the enclosing            *)
(* environment or 0.                                                       *)

NewEnvironment == [store |-> <<>>, outer |-> 0]
NewEnclosedEnvironment(outer) == [store |-> <<>>, outer |-> outer]

RECURSIVE EnvGet(_, _, _)
EnvGet(es, env, name) ==
    IF name \in DOMAIN es[env].store THEN [val |-> es[env].store[name], ok |-> TRUE]
    ELSE IF es[env].outer # 0 THEN EnvGet(es, es[env].outer, name)
    ELSE [val |-> NilObject, ok |-> FALSE]

EnvSet(es, env, name, val) ==
    [es EXCEPT ![env].store =
        [n \in DOMAIN es[env].store \cup {name} |-> IF n = name THEN val ELSE es[env].store[n]]]

----------------------------------------------------------------------------
(* The evaluator (package evaluator).  An evaluation state st holds what   *)
(* the Go code mutates: envs and nextId; trace is the ghost record of the  *)
(* Eval calls, panic the run-time panic that aborted the evaluation ("" if *)
(* none).  Every function returns the value it yields and the state it     *)
(* leaves.  Operand values stay far inside the int64 range, so the         *)
(* arithmetic is written without the wrap-around.                          *)

V(val, st) == [val |-> val, st |-> st]

Panic(st, what) == V(NilObject, [st EXCEPT !.panic = what])

\* a call of Type() on the object: a nil object has no method to call
IsNilObject(obj) == obj.type = "nil"

Alloc(st) == [st EXCEPT !.nextId = st.nextId + 1]

newError(st, m) == V(Error(st.nextId, m), Alloc(st))

\* isError testing for the wrong type tag
isError_wrongTag(obj) == IF obj.type # "nil" THEN obj.type = RETURN_VALUE_OBJ ELSE FALSE

isError(obj) == IF obj.type # "nil" THEN obj.type = ERROR_OBJ ELSE FALSE

\* nativeBoolToBooleanObject building a new Boolean, none of the singletons
nativeBoolToBooleanObject_fresh(input) == [type |-> BOOLEAN_OBJ, id |-> 0 - 1, Value |-> input]

nativeBoolToBooleanObject(input) == IF input THEN TRUE_OBJ ELSE FALSE_OBJ

\* isTruthy taking Integer(0) for falsy
isTruthy_zeroIsFalsy(obj) ==
    CASE SameObject(obj, NULL) -> FALSE
      [] SameObject(obj, TRUE_OBJ) -> TRUE
      [] SameObject(obj, FALSE_OBJ) -> FALSE
      [] obj.type = INTEGER_OBJ -> obj.Value # 0
      [] OTHER -> TRUE

isTruthy(obj) ==
    CASE SameObject(obj, NULL) -> FALSE
      [] SameObject(obj, TRUE_OBJ) -> TRUE
      [] SameObject(obj, FALSE_OBJ) -> FALSE
      [] OTHER -> TRUE

evalBangOperatorExpression(right) ==
    CASE SameObject(right, TRUE_OBJ) -> FALSE_OBJ
      [] SameObject(right, FALSE_OBJ) -> TRUE_OBJ
      [] SameObject(right, NULL) -> TRUE_OBJ
      [] OTHER -> FALSE_OBJ

evalMinusPrefixOperatorExpression(right, st) ==
    IF IsNilObject(right) THEN Panic(st, "nil pointer dereference")
    ELSE IF right.type # INTEGER_OBJ THEN newError(st, <<"unknown operator: -", right.type>>)
    ELSE V(Integer(st.nextId, 0 - right.Value), Alloc(st))

evalPrefixExpression(operator, right, st) ==
    CASE operator = "!" -> V(evalBangOperatorExpression(right), st)
      [] operator = "-" -> evalMinusPrefixOperatorExpression(right, st)
      [] OTHER -> IF IsNilObject(right) THEN Panic(st, "nil pointer dereference")
                  ELSE newError(st, <<"unknown operator: ", operator, right.type>>)

\* Go's integer division truncates toward zero
Abs(x) == IF x < 0 THEN 0 - x ELSE x
Quotient(a, b) == IF (a < 0) # (b < 0) THEN 0 - (Abs(a) \div Abs(b)) ELSE Abs(a) \div Abs(b)

evalIntegerInfixExpression(operator, left, right, st) ==
    LET leftVal == left.Value
        rightVal == right.Value
    IN  CASE operator = "+" -> V(Integer(st.nextId, leftVal + rightVal), Alloc(st))
          [] operator = "-" -> V(Integer(st.nextId, leftVal - rightVal), Alloc(st))
          [] operator = "*" -> V(Integer(st.nextId, leftVal * rightVal), Alloc(st))
          [] operator = "/" ->
                IF rightVal = 0 THEN Panic(st, "integer divide by zero")
                ELSE V(Integer(st.nextId, Quotient(leftVal, rightVal)), Alloc(st))
          [] operator = "<" -> V(nativeBoolToBooleanObject(leftVal < rightVal), st)
          [] operator = ">" -> V(nativeBoolToBooleanObject(leftVal > rightVal), st)
          [] operator = "==" -> V(nativeBoolToBooleanObject(leftVal = rightVal), st)
          [] operator = "!=" -> V(nativeBoolToBooleanObject(leftVal # rightVal), st)
          [] OTHER -> newError(st, <<"unknown operator: ", left.type, operator, right.type>>)

evalInfixExpression(operator, left, right, st) ==
    IF IsNilObject(left) \/ IsNilObject(right) THEN Panic(st, "nil pointer dereference")
    ELSE IF left.type = INTEGER_OBJ /\ right.type = INTEGER_OBJ
         THEN evalIntegerInfixExpression(operator, left, right, st)
    ELSE IF operator = "==" THEN V(nativeBoolToBooleanObject(SameObject(left, right)), st)
    ELSE IF operator = "!=" THEN V(nativeBoolToBooleanObject(~SameObject(left, right)), st)
    ELSE IF left.type # right.type
         THEN newError(st, <<"type mismatch: ", left.type, operator, right.type>>)
    ELSE newError(st, <<"unknown operator: ", left.type, operator, right.type>>)

\* evalIdentifier looking the name up in the global environment
evalIdentifier_global(node, env, st) ==
    LET g == EnvGet(st.envs, 1, node.Value)
    IN  IF ~g.ok THEN newError(st, <<"identifier not found: ", node.Value>>)
        ELSE V(g.val, st)

\* evalIdentifier yielding NULL for a name that is not bound
evalIdentifier_missingIsNull(node, env, st) ==
    LET g == EnvGet(st.envs, env, node.Value)
    IN  IF ~g.ok THEN V(NULL, st)
        ELSE V(g.val, st)

evalIdentifier(node, env, st) ==
    LET g == EnvGet(st.envs, env, node.Value)
    IN  IF ~g.ok THEN newError(st, <<"identifier not found: ", node.Value>>)
        ELSE V(g.val, st)

Enter(st, path) ==
    [st EXCEPT !.trace = Append(st.trace, [ev |-> "enter", path |-> path, val |-> NilObject])]
Exit(r, path) ==
    IF r.st.panic # "" THEN r
    ELSE V(r.val, [r.st EXCEPT !.trace = Append(r.st.trace, [ev |-> "exit", path |-> path, val |-> r.val])])

RECURSIVE Eval(_, _, _, _), evalBlockStatementLoop(_, _, _, _, _, _), evalExpressions(_, _, _, _, _, _)

\* the loop of evalBlockStatement stopping at an Error only
evalBlockStatementLoop_errorOnly(block, env, st, path, k, last) ==
    IF k > Len(block.Statements) THEN V(last, st)
    ELSE LET r == Eval(block.Statements[k], env, st, Append(path, k))
         IN  IF r.st.panic # "" THEN r
             ELSE IF ~IsNilObject(r.val) /\ r.val.type = ERROR_OBJ THEN r
             ELSE evalBlockStatementLoop(block, env, r.st, path, k + 1, r.val)

\* the for loop of evalBlockStatement, at statement k, `last` being the value
\* of the loop's variable `result`
evalBlockStatementLoop(block, env, st, path, k, last) ==
    IF k > Len(block.Statements) THEN V(last, st)
    ELSE LET r == Eval(block.Statements[k], env, st, Append(path, k))
         IN  IF r.st.panic # "" THEN r
             ELSE IF ~IsNilObject(r.val) /\ r.val.type \in {RETURN_VALUE_OBJ, ERROR_OBJ} THEN r
             ELSE evalBlockStatementLoop(block, env, r.st, path, k + 1, r.val)

evalBlockStatement(block, env, st, path) ==
    evalBlockStatementLoop(block, env, st, path, 1, NilObject)

evalIfExpression(ie, env, st, path) ==
    LET condition == Eval(ie.Condition, env, st, Append(path, 1))
    IN  IF condition.st.panic # "" THEN condition
        ELSE IF isError(condition.val) THEN condition
        ELSE IF isTruthy(condition.val) THEN Eval(ie.Consequence, env, condition.st, Append(path, 2))
        ELSE IF ie.Alternative.kind # "nil" THEN Eval(ie.Alternative, env, condition.st, Append(path, 3))
        ELSE V(NULL, condition.st)

\* a Function closing over the environment of its definition site
evalFunctionLiteral(node, env, st, path) ==
    V(Function(st.nextId, node.Parameters, node.Body, env, Append(path, 1)), Alloc(st))

\* the arguments from the k-th on, left to right, stopping at the first Error:
\* the result is that Error alone
evalExpressions(exps, env, st, path, k, acc) ==
    IF k > Len(exps) THEN V(acc, st)
    ELSE LET r == Eval(exps[k], env, st, Append(path, k + 1))
         IN  IF r.st.panic # "" THEN r
             ELSE IF isError(r.val) THEN V(<<r.val>>, r.st)
             ELSE evalExpressions(exps, env, r.st, path, k + 1, Append(acc, r.val))

\* a fresh environment whose outer link is the function's own environment,
\* with the parameters bound to the arguments by position
extendFunctionEnv(fn, args, st) ==
    LET e == Len(st.envs) + 1
        bound == [n \in {fn.Parameters[k].Value : k \in DOMAIN fn.Parameters} |->
                    args[CHOOSE k \in DOMAIN fn.Parameters :
                            /\ fn.Parameters[k].Value = n
                            /\ \A j \in DOMAIN fn.Parameters :
                                  fn.Parameters[j].Value = n => j <= k]]
    IN  [env |-> e,
         st |-> [st EXCEPT !.envs = Append(st.envs, [store |-> bound, outer |-> fn.Env])]]

unwrapReturnValue(obj) ==
    IF ~IsNilObject(obj) /\ obj.type = RETURN_VALUE_OBJ THEN obj.Value ELSE obj

applyFunction(fn, args, st) ==
    IF IsNilObject(fn) THEN Panic(st, "nil pointer dereference")
    ELSE IF fn.type # FUNCTION_OBJ THEN newError(st, <<"not a function: ", fn.type>>)
    ELSE IF Len(args) < Len(fn.Parameters) THEN Panic(st, "index out of range")
    ELSE LET x == extendFunctionEnv(fn, args, st)
             evaluated == Eval(fn.Body, x.env, x.st, fn.BodyPath)
         IN  IF evaluated.st.panic # "" THEN evaluated
             ELSE V(unwrapReturnValue(evaluated.val), evaluated.st)

evalCallExpression(node, env, st, path) ==
    LET function == Eval(node.Function, env, st, Append(path, 1))
    IN  IF function.st.panic # "" THEN function
        ELSE IF isError(function.val) THEN function
        ELSE LET args == evalExpressions(node.Arguments, env, function.st, path, 1, <<>>)
             IN  IF args.st.panic # "" THEN args
                 ELSE IF Len(args.val) = 1 /\ isError(args.val[1]) THEN V(args.val[1], args.st)
                 ELSE applyFunction(function.val, args.val, args.st)

\* the type switch of Eval
EvalNode(node, env, st, path) ==
    CASE node.kind = "ExpressionStatement" -> Eval(node.Expression, env, st, Append(path, 1))
      [] node.kind = "BlockStatement" -> evalBlockStatement(node, env, st, path)
      [] node.kind = "ReturnStatement" ->
            LET val == Eval(node.ReturnValue, env, st, Append(path, 1))
            IN  IF val.st.panic # "" THEN val
                ELSE IF isError(val.val) THEN val
                ELSE V(ReturnValue(val.st.nextId, val.val), Alloc(val.st))
      [] node.kind = "LetStatement" ->
            LET val == Eval(node.Value, env, st, Append(path, 1))
            IN  IF val.st.panic # "" THEN val
                ELSE IF isError(val.val) THEN val
                ELSE V(NilObject,
                       [val.st EXCEPT !.envs = EnvSet(val.st.envs, env, node.Name.Value, val.val)])
      [] node.kind = "NilLetStatement" -> Panic(st, "nil pointer dereference")
      [] node.kind = "IntegerLiteral" -> V(Integer(st.nextId, node.Value), Alloc(st))
      [] node.kind = "Boolean" -> V(nativeBoolToBooleanObject(node.Value), st)
      [] node.kind = "PrefixExpression" ->
            LET right == Eval(node.Right, env, st, Append(path, 1))
            IN  IF right.st.panic # "" THEN right
                ELSE IF isError(right.val) THEN right
                ELSE evalPrefixExpression(node.Operator, right.val, right.st)
      [] node.kind = "InfixExpression" ->
            LET left == Eval(node.Left, env, st, Append(path, 1))
            IN  IF left.st.panic # "" THEN left
                ELSE IF isError(left.val) THEN left
                ELSE LET right == Eval(node.Right, env, left.st, Append(path, 2))
                     IN  IF right.st.panic # "" THEN right
                         ELSE IF isError(right.val) THEN right
                         ELSE evalInfixExpression(node.Operator, left.val, right.val, right.st)
      [] node.kind = "IfExpression" -> evalIfExpression(node, env, st, path)
      [] node.kind = "Identifier" -> evalIdentifier(node, env, st)
      [] node.kind = "FunctionLiteral" -> evalFunctionLiteral(node, env, st, path)
      [] node.kind = "CallExpression" -> evalCallExpression(node, env, st, path)
      [] OTHER -> V(NilObject, st)

\* Eval, with the ghost record of the call and of its result
Eval(node, env, st, path) == Exit(EvalNode(node, env, Enter(st, path), path), path)

\* the evaluation as the state variables hold it
evaluation == [envs |-> envs, nextId |-> nextId, trace |-> trace, panic |-> ""]

\* one iteration of evalProgram's loop
evalProgramStep ==
    /\ epc = "run"
    /\ idx <= Len(prog)
    /\ LET r == Eval(prog[idx], 1, evaluation, <<idx>>)
       IN  /\ envs' = r.st.envs
           /\ nextId' = r.st.nextId
           /\ trace' = r.st.trace
           /\ IF r.st.panic # ""
              THEN /\ epc' = "panic"
                   /\ UNCHANGED <<result, idx>>
              ELSE IF ~IsNilObject(r.val) /\ r.val.type = RETURN_VALUE_OBJ
              THEN /\ result' = r.val.Value
                   /\ epc' = "done"
                   /\ UNCHANGED idx
              ELSE IF ~IsNilObject(r.val) /\ r.val.type = ERROR_OBJ
              THEN /\ result' = r.val
                   /\ epc' = "done"
                   /\ UNCHANGED idx
              ELSE /\ result' = r.val
                   /\ idx' = idx + 1
                   /\ UNCHANGED epc
    /\ UNCHANGED <<macroVars, parserVars, prog>>

\* evalProgram leaves its loop and returns `result`
evalProgramReturn ==
    /\ epc = "run"
    /\ idx > Len(prog)
    /\ epc' = "done"
    /\ UNCHANGED <<macroVars, parserVars, prog, idx, envs, nextId, trace, result>>


----------------------------------------------------------------------------
(* The first version of the evaluator, src/evaluator/evaluator.go: no       *)
(* environment, no Error and no ReturnValue objects.  Its functions are     *)
(* written with the suffix _v1.                                             *)

evalBangOperatorExpression_v1(right) ==
    CASE SameObject(right, TRUE_OBJ) -> FALSE_OBJ
      [] SameObject(right, FALSE_OBJ) -> TRUE_OBJ
      [] SameObject(right, NULL) -> TRUE_OBJ
      [] OTHER -> FALSE_OBJ

evalMinusPrefixOperatorExpression_v1(right, st) ==
    IF IsNilObject(right) THEN Panic(st, "nil pointer dereference")
    ELSE IF right.type # INTEGER_OBJ THEN V(NULL, st)
    ELSE V(Integer(st.nextId, 0 - right.Value), Alloc(st))

evalPrefixExpression_v1(operator, right, st) ==
    CASE operator = "!" -> V(evalBangOperatorExpression_v1(right), st)
      [] operator = "-" -> evalMinusPrefixOperatorExpression_v1(right, st)
      [] OTHER -> V(NULL, st)

evalIntegerInfixExpression_v1(operator, left, right, st) ==
    LET leftVal == left.Value
        rightVal == right.Value
    IN  CASE operator = "+" -> V(Integer(st.nextId, leftVal + rightVal), Alloc(st))
          [] operator = "-" -> V(Integer(st.nextId, leftVal - rightVal), Alloc(st))
          [] operator = "*" -> V(Integer(st.nextId, leftVal * rightVal), Alloc(st))
          [] operator = "/" ->
                IF rightVal = 0 THEN Panic(st, "integer divide by zero")
                ELSE V(Integer(st.nextId, Quotient(leftVal, rightVal)), Alloc(st))
          [] operator = "<" -> V(nativeBoolToBooleanObject(leftVal < rightVal), st)
          [] operator = ">" -> V(nativeBoolToBooleanObject(leftVal > rightVal), st)
          [] operator = "==" -> V(nativeBoolToBooleanObject(leftVal = rightVal), st)
          [] operator = "!=" -> V(nativeBoolToBooleanObject(leftVal # rightVal), st)
          [] OTHER -> V(NULL, st)

evalInfixExpression_v1(operator, left, right, st) ==
    IF IsNilObject(left) \/ IsNilObject(right) THEN Panic(st, "nil pointer dereference")
    ELSE IF left.type = INTEGER_OBJ /\ right.type = INTEGER_OBJ
         THEN evalIntegerInfixExpression_v1(operator, left, right, st)
    ELSE IF operator = "==" THEN V(nativeBoolToBooleanObject(SameObject(left, right)), st)
    ELSE IF operator = "!=" THEN V(nativeBoolToBooleanObject(~SameObject(left, right)), st)
    ELSE V(NULL, st)

RECURSIVE Eval_v1(_, _)
Eval_v1(node, st) ==
    CASE node.kind = "ExpressionStatement" -> Eval_v1(node.Expression, st)
      [] node.kind = "IntegerLiteral" -> V(Integer(st.nextId, node.Value), Alloc(st))
      [] node.kind = "Boolean" -> V(nativeBoolToBooleanObject(node.Value), st)
      [] node.kind = "PrefixExpression" ->
            LET right == Eval_v1(node.Right, st)
            IN  IF right.st.panic # "" THEN right
                ELSE evalPrefixExpression_v1(node.Operator, right.val, right.st)
      [] node.kind = "InfixExpression" ->
            LET left == Eval_v1(node.Left, st)
            IN  IF left.st.panic # "" THEN left
                ELSE LET right == Eval_v1(node.Right, left.st)
                     IN  IF right.st.panic # "" THEN right
                         ELSE evalInfixExpression_v1(node.Operator, left.val, right.val, right.st)
      [] OTHER -> V(NilObject, st)

\* one iteration of the loop of evalStatements
evalStatementsStep ==
    /\ epc = "run"
    /\ idx <= Len(prog)
    /\ LET r == Eval_v1(prog[idx], evaluation)
       IN  /\ nextId' = r.st.nextId
           /\ IF r.st.panic # ""
              THEN /\ epc' = "panic"
                   /\ UNCHANGED <<result, idx>>
              ELSE /\ result' = r.val
                   /\ idx' = idx + 1
                   /\ UNCHANGED epc
    /\ UNCHANGED <<macroVars, parserVars, prog, envs, trace>>

\* evalStatements leaves its loop and returns `result`
evalStatementsReturn ==
    /\ epc = "run"
    /\ idx > Len(prog)
    /\ epc' = "done"
    /\ UNCHANGED <<macroVars, parserVars, prog, idx, envs, nextId, trace, result>>


----------------------------------------------------------------------------
(* The programs the evaluator is run on.                                   *)

InfixOperators == {"+", "-", "*", "/", "<", ">", "==", "!="}
PrefixOperators == {"!", "-"}

IntegerLiterals == {IntegerLiteral(n) : n \in 0..MaxInt}
\* x is bound by the let statements of the programs, y by none
Atoms == IntegerLiterals \cup {Boolean(TRUE), Boolean(FALSE), Identifier("x"), Identifier("y")}

ES(e) == ExpressionStatement(e)
Let(name, e) == LetStatement(Identifier(name), e)
Ret(e) == ReturnStatement(e)
If1(c, stmts) == IfExpression(c, Block(stmts), Nil)
If2(c, stmts, alts) == IfExpression(c, Block(stmts), Block(alts))
Call(f, args) == CallExpression(f, args)
Id(name) == Identifier(name)
Lit(n) == IntegerLiteral(n)

\* flat expressions: every operator on every pair of atoms
FlatExpressions ==
    Atoms
    \cup {PrefixExpression(op, a) : op \in PrefixOperators, a \in Atoms}
    \cup {InfixExpression(op, a, b) : op \in InfixOperators, a \in Atoms, b \in Atoms}

\* operands of the nested expressions: a value of every type, an Error (y is
\* unbound, true + true), a ReturnValue (an if whose block returns), NULL (an
\* if that takes no branch)
Operands ==
    {Lit(1), Boolean(TRUE), Id("y"),
     InfixExpression("+", Boolean(TRUE), Boolean(TRUE)),
     PrefixExpression("-", Lit(1)), PrefixExpression("-", Id("y")),
     PrefixExpression("!", Boolean(TRUE)),
     If1(Boolean(TRUE), <<Ret(Lit(1))>>),
     If1(Boolean(FALSE), <<ES(Lit(1))>>),
     If2(Id("y"), <<ES(Lit(1))>>, <<ES(Lit(2))>>),
     If2(Boolean(FALSE), <<ES(Lit(1))>>, <<ES(Id("y"))>>),
     Fn(<<>>, Block(<<ES(Lit(1))>>))}

NestedExpressions ==
    {InfixExpression(op, a, b) : op \in {"+", "==", "/"}, a \in Operands, b \in Operands}
    \cup {PrefixExpression(op, a) : op \in PrefixOperators, a \in Operands}
    \cup {If2(a, <<ES(b)>>, <<ES(Lit(0))>>) : a \in Operands, b \in Operands}

\* statements around an operand, and what may follow them in a block
Statements == {ES(a) : a \in Operands} \cup {Ret(a) : a \in Operands} \cup {Let("x", a) : a \in Operands}
Followers == {ES(Lit(2)), Ret(Lit(2)), ES(Id("x"))}

\* blocks nested in blocks: a statement s at depth 1, 2 or 3, each block with
\* a statement after it
BlockPrograms ==
    {<<s, t>> : s \in Statements, t \in Followers}
    \cup {<<ES(If1(Boolean(TRUE), <<s, t>>)), ES(Lit(0))>> : s \in Statements, t \in Followers}
    \cup {<<ES(If2(Boolean(FALSE), <<ES(Lit(0))>>, <<ES(If1(Lit(0), <<s, t>>)), t>>)), ES(Lit(0))>> :
             s \in Statements, t \in Followers}
    \cup {<<ES(If1(Lit(1), <<ES(If1(Lit(1), <<ES(If1(Lit(1), <<s>>)), t>>)), Ret(Lit(0))>>)), t>> :
             s \in Statements, t \in Followers}

\* if (10 > 1) { if (10 > 1) { return 10; } return 1; }
NestedReturn ==
    <<ES(If1(InfixExpression(">", Lit(10), Lit(1)),
             <<ES(If1(InfixExpression(">", Lit(10), Lit(1)), <<Ret(Lit(10))>>)), Ret(Lit(1))>>))>>

\* functions and calls: closures, shadowing, return in a callee
\* let newAdder = fn(x) { fn(y) { x + y } }; let addTwo = newAdder(a); addTwo(b);
NewAdder(a, b) ==
    <<Let("newAdder", Fn(<<Id("x")>>, Block(<<ES(Fn(<<Id("y")>>,
              Block(<<ES(InfixExpression("+", Id("x"), Id("y")))>>)))>>))),
      Let("addTwo", Call(Id("newAdder"), <<Lit(a)>>)),
      ES(Call(Id("addTwo"), <<Lit(b)>>))>>

\* let x = a; let f = fn() { x }; let g = fn(x) { f() }; g(b); x;
Lexical(a, b) ==
    <<Let("x", Lit(a)),
      Let("f", Fn(<<>>, Block(<<ES(Id("x"))>>))),
      Let("g", Fn(<<Id("x")>>, Block(<<ES(Call(Id("f"), <<>>))>>))),
      ES(Call(Id("g"), <<Lit(b)>>)),
      ES(Id("x"))>>

\* let f = fn(x) { if (x < 1) { return a; } let z = b; z }; f(c) + f(1); z;
ReturnInCallee(a, b, c) ==
    <<Let("f", Fn(<<Id("x")>>, Block(<<ES(If1(InfixExpression("<", Id("x"), Lit(1)), <<Ret(Lit(a))>>)),
                                       Let("z", Lit(b)), ES(Id("z"))>>))),
      ES(InfixExpression("+", Call(Id("f"), <<Lit(c)>>), Call(Id("f"), <<Lit(1)>>))),
      ES(Id("z"))>>

\* let x = a; let f = fn(x, y) { let x = y; return x; }; f(b, c); x;
Shadowing(a, b, c) ==
    <<Let("x", Lit(a)),
      Let("f", Fn(<<Id("x"), Id("y")>>, Block(<<Let("x", Id("y")), Ret(Id("x"))>>))),
      ES(Call(Id("f"), <<Lit(b), Lit(c)>>)),
      ES(Id("x"))>>

\* calls whose callee or argument is an Error, a non-function or a ReturnValue
CallOperands ==
    {<<Let("f", Fn(<<Id("x")>>, Block(<<ES(Id("x"))>>))), ES(Call(Id("f"), <<a>>)), ES(Lit(0))>> :
        a \in Operands}
    \cup {<<ES(Call(a, <<Lit(1)>>)), ES(Lit(0))>> : a \in Operands \ {Fn(<<>>, Block(<<ES(Lit(1))>>))}}
    \cup {<<ES(Call(Fn(<<>>, Block(<<ES(Lit(1))>>)), <<>>))>>}

FunctionPrograms ==
    {NewAdder(a, b) : a \in 0..MaxInt \cup {2}, b \in 0..MaxInt \cup {3}}
    \cup {Lexical(a, b) : a \in 0..MaxInt, b \in 0..MaxInt}
    \cup {ReturnInCallee(a, b, c) : a \in 0..MaxInt, b \in 0..MaxInt, c \in 0..MaxInt}
    \cup {Shadowing(a, b, c) : a \in 0..MaxInt, b \in 0..MaxInt, c \in 0..MaxInt}
    \cup CallOperands

\* expressions that yield a Boolean or NULL in different ways, compared
NullsAndBooleans ==
    {If1(Boolean(FALSE), <<ES(Lit(1))>>), If1(Boolean(FALSE), <<ES(Lit(2))>>),
     Boolean(TRUE), Boolean(FALSE), PrefixExpression("!", Lit(1)),
     PrefixExpression("!", If1(Boolean(FALSE), <<ES(Lit(1))>>)),
     InfixExpression("<", Lit(1), Lit(2)), InfixExpression("==", Lit(1), Lit(2))}
InterningPrograms ==
    {<<ES(InfixExpression(op, a, b))>> : op \in {"==", "!="}, a \in NullsAndBooleans,
                                        b \in NullsAndBooleans}

Programs ==
    {<<ES(e)>> : e \in FlatExpressions \cup NestedExpressions}
    \cup {<<Let("x", a), ES(e)>> : a \in Operands, e \in FlatExpressions}
    \cup BlockPrograms
    \cup {NestedReturn}
    \cup FunctionPrograms
    \cup InterningPrograms

----------------------------------------------------------------------------
(* The evaluator run on a program: Eval(program, env) on a new environment. *)

InitEval ==
    /\ prog \in Programs
    /\ idx = 1
    /\ envs = <<NewEnvironment>>
    /\ nextId = FirstId
    /\ trace = <<>>
    /\ result = NilObject
    /\ epc = "run"
    /\ toks = <<>>
    /\ pos = 1
    /\ errors = <<>>
    /\ program = <<>>
    /\ ppc = "off"
    /\ definitions = <<>>
    /\ original = <<>>
    /\ mpc = "off"

NextEval == evalProgramStep \/ evalProgramReturn

SpecEval == InitEval /\ [][NextEval]_vars


\* the programs of the first version: expression statements over literals,
\* prefix and infix operators
Literals == IntegerLiterals \cup {Boolean(TRUE), Boolean(FALSE)}
Expressions_v1 ==
    FlatExpressions
    \cup {InfixExpression(op, InfixExpression(o, a, b), c) :
            op \in {"+", "==", "/"}, o \in {"-", "<", "/"}, a \in Literals, b \in Literals,
            c \in {Lit(0), Lit(1), Boolean(TRUE)}}
    \cup {PrefixExpression(p, InfixExpression(o, a, b)) :
            p \in PrefixOperators, o \in {"-", "<", "!="}, a \in Literals, b \in Literals}
Programs_v1 ==
    {<<ES(e)>> : e \in Expressions_v1}
    \cup {<<ES(e), ES(f)>> : e \in {Lit(1), InfixExpression("/", Lit(1), Lit(0))},
                            f \in {Lit(2), Boolean(TRUE)}}

InitEval_v1 ==
    /\ prog \in Programs_v1
    /\ idx = 1
    /\ envs = <<>>
    /\ nextId = FirstId
    /\ trace = <<>>
    /\ result = NilObject
    /\ epc = "run"
    /\ toks = <<>>
    /\ pos = 1
    /\ errors = <<>>
    /\ program = <<>>
    /\ ppc = "off"
    /\ definitions = <<>>
    /\ original = <<>>
    /\ mpc = "off"

NextEval_v1 == evalStatementsStep \/ evalStatementsReturn

SpecEval_v1 == InitEval_v1 /\ [][NextEval_v1]_vars

----------------------------------------------------------------------------
(* The token streams the parser is run on.                                 *)

AllTokens ==
    {T_LET, T_RETURN, T_IF, T_ELSE, T_FUNCTION, T_TRUE, T_IDENT("x"), T_INT(<<1>>), T_ILLEGAL,
     T_ASSIGN, T_SEMICOLON, T_COMMA, T_LPAREN, T_RPAREN, T_LBRACE, T_RBRACE,
     T_BANG, T_MINUS, T_PLUS, T_ASTERISK, T_EQ, T_LT}

\* every stream of at most MaxLen tokens
ShortStreams == UNION {[1..n -> AllTokens] : n \in 0..MaxLen}

OperatorTokens == {T_PLUS, T_MINUS, T_ASTERISK, T_SLASH, T_LT, T_GT, T_EQ, T_NOT_EQ}
OperandTokens == {T_IDENT("x"), T_INT(<<5>>), T_INT(<<2>>), T_TRUE}

\* a op1 b op2 c, with and without the closing ";"
InfixStreams ==
    {<<a, o1, b, o2, c>> \o e :
        a \in OperandTokens, o1 \in OperatorTokens, b \in OperandTokens,
        o2 \in OperatorTokens, c \in OperandTokens, e \in {<<>>, <<T_SEMICOLON>>}}

\* the right-hand sides of let and return, the bodies of blocks, the lists
RightHandSides ==
    {<<>>, <<T_INT(<<5>>)>>, <<T_INT(<<5>>), T_PLUS, T_IDENT("x")>>,
     <<T_IF, T_LPAREN, T_TRUE, T_RPAREN, T_LBRACE, T_RETURN, T_INT(<<1>>), T_SEMICOLON, T_RBRACE>>,
     <<T_INT(<<0>>)>>, <<T_INT(<<0, 8>>)>>, <<T_INT(<<0, 1, 0>>)>>,
     <<T_INT(<<9, 2, 2, 3, 3, 7, 2, 0, 3, 6, 8, 5, 4, 7, 7, 5, 8, 0, 8>>)>>}
Endings == {<<>>, <<T_SEMICOLON>>, <<T_SEMICOLON, T_IDENT("x")>>, <<T_SEMICOLON, T_IDENT("x"), T_SEMICOLON>>}

LetStreams ==
    {<<T_LET, T_IDENT("x"), T_ASSIGN>> \o r \o e : r \in RightHandSides, e \in Endings}
    \cup {<<T_LET>> \o r \o e : r \in RightHandSides, e \in Endings}
    \cup {<<T_LET, T_IDENT("x")>> \o r \o e : r \in RightHandSides, e \in Endings}
ReturnStreams == {<<T_RETURN>> \o r \o e : r \in RightHandSides, e \in Endings}
ExpressionStreams == {r \o e : r \in RightHandSides, e \in Endings}

Bodies ==
    {<<>>, <<T_INT(<<1>>)>>, <<T_INT(<<1>>), T_SEMICOLON, T_IDENT("x")>>,
     <<T_LET, T_IDENT("x"), T_ASSIGN, T_INT(<<1>>), T_SEMICOLON>>,
     <<T_LET, T_IDENT("x"), T_ASSIGN, T_INT(<<1>>)>>,
     <<T_RETURN, T_INT(<<1>>), T_SEMICOLON>>, <<T_RETURN, T_INT(<<1>>)>>,
     <<T_PLUS>>}
Closings == {<<>>, <<T_RBRACE>>, <<T_RBRACE, T_SEMICOLON, T_INT(<<2>>)>>}

IfStreams ==
    {<<T_IF, T_LPAREN, T_IDENT("x"), T_RPAREN, T_LBRACE>> \o b \o c : b \in Bodies, c \in Closings}
    \cup {<<T_IF, T_LPAREN, T_TRUE, T_RPAREN, T_LBRACE, T_INT(<<1>>), T_RBRACE, T_ELSE, T_LBRACE>>
             \o b \o c : b \in Bodies, c \in Closings}
    \cup {<<T_IF>> \o h \o <<T_INT(<<1>>), T_RBRACE>> :
             h \in {<<T_TRUE, T_RPAREN, T_LBRACE>>, <<T_LPAREN, T_TRUE, T_LBRACE>>,
                    <<T_LPAREN, T_TRUE, T_RPAREN>>, <<T_LPAREN, T_RPAREN, T_LBRACE>>,
                    <<T_LPAREN, T_TRUE, T_RPAREN, T_LBRACE, T_INT(<<1>>), T_RBRACE, T_ELSE>>}}

Lists ==
    {<<>>, <<T_IDENT("x")>>, <<T_IDENT("x"), T_COMMA, T_IDENT("y")>>, <<T_INT(<<1>>)>>,
     <<T_IDENT("x"), T_COMMA>>, <<T_PLUS>>, <<T_IDENT("x"), T_COMMA, T_INT(<<1>>)>>,
     <<T_IDENT("x"), T_IDENT("y")>>, <<T_IDENT("x"), T_COMMA, T_PLUS>>}
ListClosings == {<<>>, <<T_RPAREN>>}

FunctionStreams ==
    {<<T_FUNCTION, T_LPAREN>> \o l \o c \o <<T_LBRACE>> \o b \o d :
        l \in Lists, c \in ListClosings, b \in {<<>>, <<T_IDENT("x")>>}, d \in {<<>>, <<T_RBRACE>>}}
    \cup {<<T_FUNCTION>> \o h :
             h \in {<<T_LBRACE, T_RBRACE>>, <<T_LPAREN, T_RPAREN, T_RBRACE>>, <<T_LPAREN, T_RPAREN>>}}

CallStreams ==
    {f \o <<T_LPAREN>> \o l \o c \o e :
        f \in {<<T_IDENT("x")>>, <<T_INT(<<1>>), T_PLUS, T_IDENT("x")>>,
               <<T_FUNCTION, T_LPAREN, T_IDENT("x"), T_RPAREN, T_LBRACE, T_IDENT("x"), T_RBRACE>>},
        l \in Lists, c \in ListClosings, e \in {<<>>, <<T_ASTERISK, T_INT(<<2>>)>>}}

GroupedStreams ==
    {<<T_LPAREN, T_INT(<<5>>), T_PLUS, T_INT(<<5>>)>> \o c \o <<T_ASTERISK, T_INT(<<2>>)>> \o e :
        c \in ListClosings, e \in {<<>>, <<T_SEMICOLON>>}}
    \cup {<<o, T_INT(<<5>>), T_PLUS, p, T_INT(<<2>>)>> :
             o \in {T_MINUS, T_BANG}, p \in {T_MINUS, T_BANG}}

\* if (10 > 1) { if (10 > 1) { return 10; } return 1; }
NestedReturnSource ==
    <<T_IF, T_LPAREN, T_INT(<<1, 0>>), T_GT, T_INT(<<1>>), T_RPAREN, T_LBRACE,
      T_IF, T_LPAREN, T_INT(<<1, 0>>), T_GT, T_INT(<<1>>), T_RPAREN, T_LBRACE,
      T_RETURN, T_INT(<<1, 0>>), T_SEMICOLON, T_RBRACE,
      T_RETURN, T_INT(<<1>>), T_SEMICOLON, T_RBRACE>>

\* let newAdder = fn(x) { fn(y) { x + y } }; let addTwo = newAdder(a); addTwo(b);
NewAdderSource(a, b) ==
    <<T_LET, T_IDENT("newAdder"), T_ASSIGN, T_FUNCTION, T_LPAREN, T_IDENT("x"), T_RPAREN,
      T_LBRACE, T_FUNCTION, T_LPAREN, T_IDENT("y"), T_RPAREN, T_LBRACE,
      T_IDENT("x"), T_PLUS, T_IDENT("y"), T_RBRACE, T_RBRACE, T_SEMICOLON,
      T_LET, T_IDENT("addTwo"), T_ASSIGN, T_IDENT("newAdder"), T_LPAREN, T_INT(<<a>>),
      T_RPAREN, T_SEMICOLON,
      T_IDENT("addTwo"), T_LPAREN, T_INT(<<b>>), T_RPAREN, T_SEMICOLON>>

\* fn(x) { return x; 9 }(a) + 1;
ReturnInCalleeSource(a) ==
    <<T_FUNCTION, T_LPAREN, T_IDENT("x"), T_RPAREN,
      T_LBRACE, T_RETURN, T_IDENT("x"), T_SEMICOLON, T_INT(<<9>>), T_RBRACE,
      T_LPAREN, T_INT(<<a>>), T_RPAREN, T_PLUS, T_INT(<<1>>), T_SEMICOLON>>

\* fn(x) { x }(if (true) { return 1; });
ReturnAsArgumentSource ==
    <<T_FUNCTION, T_LPAREN, T_IDENT("x"), T_RPAREN, T_LBRACE, T_IDENT("x"), T_RBRACE,
      T_LPAREN, T_IF, T_LPAREN, T_TRUE, T_RPAREN, T_LBRACE, T_RETURN, T_INT(<<1>>),
      T_SEMICOLON, T_RBRACE, T_RPAREN, T_SEMICOLON>>

\* 1 + if (true) { return 2; }
ReturnAsOperandSource ==
    <<T_INT(<<1>>), T_PLUS, T_IF, T_LPAREN, T_TRUE, T_RPAREN, T_LBRACE,
      T_RETURN, T_INT(<<2>>), T_SEMICOLON, T_RBRACE>>

SourceExamples ==
    {NestedReturnSource, ReturnAsArgumentSource, ReturnAsOperandSource}
    \cup {NewAdderSource(a, b) : a \in 0..MaxInt \cup {2}, b \in 0..MaxInt \cup {3}}
    \cup {ReturnInCalleeSource(a) : a \in 0..MaxInt}

\* the digits of 2^63, the magnitude of the least int64
MinInt64Digits == <<9, 2, 2, 3, 3, 7, 2, 0, 3, 6, 8, 5, 4, 7, 7, 5, 8, 0, 8>>

\* decimal integer literals, positive and negative, with or without a ";"
DecimalTexts == {<<n>> : n \in 0..MaxInt} \cup {<<1, 0>>, <<4, 2>>, <<1, 0, 7>>, MinInt64Digits}
LiteralStreams ==
    {s \o <<T_INT(ds)>> \o e : s \in {<<>>, <<T_MINUS>>}, ds \in DecimalTexts,
                               e \in {<<>>, <<T_SEMICOLON>>}}

TokenStreams ==
    ShortStreams \cup InfixStreams \cup LetStreams \cup ReturnStreams \cup ExpressionStreams
    \cup IfStreams \cup FunctionStreams \cup CallStreams \cup GroupedStreams
    \cup SourceExamples \cup LiteralStreams

----------------------------------------------------------------------------
(* The interpreter run on a source: New(lexer) has read the first two      *)
(* tokens; ParseProgram builds the program; when the parser logged no      *)
(* error the program is evaluated in a new environment.                    *)

Init ==
    /\ toks \in TokenStreams
    /\ pos = 1
    /\ errors = <<>>
    /\ program = <<>>
    /\ ppc = "parsing"
    /\ prog = <<>>
    /\ idx = 1
    /\ envs = <<NewEnvironment>>
    /\ nextId = FirstId
    /\ trace = <<>>
    /\ result = NilObject
    /\ epc = "idle"
    /\ definitions = <<>>
    /\ original = <<>>
    /\ mpc = "off"

\* the caller of the parser: evaluation is invoked only when the error log is empty
Start ==
    /\ ppc = "done"
    /\ epc = "idle"
    /\ errors = <<>>
    /\ prog' = program
    /\ epc' = "run"
    /\ UNCHANGED <<macroVars, parserVars, idx, envs, nextId, trace, result>>

Next ==
    \/ ParseProgramStep
    \/ ParseProgramReturn
    \/ SkipToSemicolonStep
    \/ Start
    \/ evalProgramStep
    \/ evalProgramReturn

Spec == Init /\ [][Next]_vars


----------------------------------------------------------------------------
(* The macro pre-pass (DefineMacros).  `prog` is program.Statements, env 1 *)
(* the environment the caller passes, idx the loop variable of the loop    *)
(* running (the position in program.Statements in the first loop, the      *)
(* position in `definitions` in the second), both counted from 1 here.     *)

\* the longest program handed to DefineMacros
MaxStatements == 4

MACRO_OBJ == "MACRO"

MacroLiteral(params, body) == [kind |-> "MacroLiteral", Parameters |-> params, Body |-> body]

Macro(id, params, body, env) ==
    [type |-> MACRO_OBJ, id |-> id, Parameters |-> params, Body |-> body, Env |-> env]

\* FALSE where the node is no let statement or its value no macro literal
isMacroDefinition(node) ==
    IF node.kind # "LetStatement" THEN FALSE
    ELSE IF node.Value.kind # "MacroLiteral" THEN FALSE
    ELSE TRUE

\* the environment heap after env.Set(name, &object.Macro{...})
addMacro(stmt, es, env, id) ==
    LET letStatement == stmt
        macroLiteral == letStatement.Value
        macro == Macro(id, macroLiteral.Parameters, macroLiteral.Body, env)
    IN  EnvSet(es, env, letStatement.Name.Value, macro)

\* a removal that leaves the slice as it was
RemoveStatement_keeps(stmts, definitionIndex) == stmts

\* append(stmts[:definitionIndex], stmts[definitionIndex+1:]...), the index
\* counted from 0 as in the code
RemoveStatement(stmts, definitionIndex) ==
    SubSeq(stmts, 1, definitionIndex) \o SubSeq(stmts, definitionIndex + 2, Len(stmts))

\* one iteration of the first loop
DefineMacrosScan ==
    /\ mpc = "scan"
    /\ idx <= Len(prog)
    /\ LET statement == prog[idx]
       IN  IF statement.kind = "NilLetStatement"
           \* a nil *ast.LetStatement passes isMacroDefinition's first
           \* assertion and its Value is read
           THEN /\ mpc' = "panic"
                /\ UNCHANGED <<idx, envs, nextId, definitions>>
           ELSE IF isMacroDefinition(statement)
           THEN /\ envs' = addMacro(statement, envs, 1, nextId)
                /\ nextId' = nextId + 1
                /\ definitions' = Append(definitions, idx - 1)
                /\ idx' = idx + 1
                /\ mpc' = mpc
           ELSE /\ idx' = idx + 1
                /\ UNCHANGED <<envs, nextId, definitions, mpc>>
    /\ UNCHANGED <<parserVars, prog, trace, result, epc, original>>

\* the first loop is over; the second starts at the last definition
DefineMacrosScanEnd ==
    /\ mpc = "scan"
    /\ idx > Len(prog)
    /\ mpc' = "remove"
    /\ idx' = Len(definitions)
    /\ UNCHANGED <<parserVars, prog, envs, nextId, trace, result, epc, definitions, original>>

\* one iteration of the second loop
DefineMacrosRemove ==
    /\ mpc = "remove"
    /\ idx >= 1
    /\ LET definitionIndex == definitions[idx]
       IN  prog' = RemoveStatement(prog, definitionIndex)
    /\ idx' = idx - 1
    /\ UNCHANGED <<parserVars, envs, nextId, trace, result, epc, definitions, original, mpc>>

DefineMacrosReturn ==
    /\ mpc = "remove"
    /\ idx < 1
    /\ mpc' = "done"
    /\ UNCHANGED <<parserVars, prog, idx, envs, nextId, trace, result, epc, definitions, original>>

\* the statements the programs handed to DefineMacros are made of: macro
\* definitions of two names, one name with two literals, and statements
\* that are none (a let of another value, a macro literal outside a let)
Unquoted == MacroLiteral(<<>>, Block(<<ES(IntegerLiteral(1))>>))
Swapped == MacroLiteral(<<Identifier("a"), Identifier("b")>>, Block(<<ES(Identifier("b"))>>))
MacroStatements ==
    { LetStatement(Identifier("m"), Unquoted),
      LetStatement(Identifier("m"), Swapped),
      LetStatement(Identifier("n"), Unquoted),
      LetStatement(Identifier("x"), IntegerLiteral(1)),
      LetStatement(Identifier("m"), Fn(<<>>, Block(<<>>))),
      ES(Unquoted),
      ES(Identifier("m")),
      NilLetStatement }

MacroPrograms ==
    UNION { [1..n -> MacroStatements] : n \in 0..MaxStatements }

InitMacros ==
    /\ prog \in MacroPrograms
    /\ original = prog
    /\ idx = 1
    /\ envs = <<NewEnvironment>>
    /\ nextId = FirstId
    /\ definitions = <<>>
    /\ mpc = "scan"
    /\ trace = <<>>
    /\ result = NilObject
    /\ epc = "idle"
    /\ toks = <<>>
    /\ pos = 1
    /\ errors = <<>>
    /\ program = <<>>
    /\ ppc = "off"

NextMacros ==
    \/ DefineMacrosScan
    \/ DefineMacrosScanEnd
    \/ DefineMacrosRemove
    \/ DefineMacrosReturn

SpecMacros == InitMacros /\ [][NextMacros]_vars


----------------------------------------------------------------------------
(* Reading the ghost trace: the node an event is about, its parent.        *)

Children(node) ==
    CASE node.kind = "ExpressionStatement" -> <<node.Expression>>
      [] node.kind = "BlockStatement" -> node.Statements
      [] node.kind = "ReturnStatement" -> <<node.ReturnValue>>
      [] node.kind = "LetStatement" -> <<node.Value>>
      [] node.kind = "PrefixExpression" -> <<node.Right>>
      [] node.kind = "InfixExpression" -> <<node.Left, node.Right>>
      [] node.kind = "IfExpression" -> <<node.Condition, node.Consequence, node.Alternative>>
      [] node.kind = "FunctionLiteral" -> <<node.Body>>
      [] node.kind = "CallExpression" -> <<node.Function>> \o node.Arguments
      [] OTHER -> <<>>

RECURSIVE Descend(_, _)
Descend(node, path) ==
    IF path = <<>> THEN node ELSE Descend(Children(node)[path[1]], Tail(path))

\* the node of the program at a path
NodeAt(path) == Descend(prog[path[1]], Tail(path))

ParentPath(path) == SubSeq(path, 1, Len(path) - 1)
ChildIndex(path) == path[Len(path)]

\* the k-th event is an Eval call returning a value of type t
Returns(k, t) == trace[k].ev = "exit" /\ trace[k].val.type = t

\* the Eval call that made the call of the k-th event returns next, and
\* returns the very same object
PassedUpward(k) ==
    /\ k < Len(trace)
    /\ trace[k + 1].ev = "exit"
    /\ trace[k + 1].path = ParentPath(trace[k].path)
    /\ SameObject(trace[k + 1].val, trace[k].val)

\* evalProgram stopped at the statement of the k-th event, the last one
StoppedProgram(k) ==
    /\ k = Len(trace)
    /\ epc = "done"
    /\ idx = trace[k].path[1]

----------------------------------------------------------------------------
(* The claims.                                                             *)

\* the statement of a block, the block of an if, the expression of an
\* expression statement: the places a ReturnValue moves up through
IsBlockPlace(path) ==
    LET parent == NodeAt(ParentPath(path))
    IN  \/ parent.kind = "BlockStatement"
        \/ parent.kind = "ExpressionStatement"
        \/ parent.kind = "IfExpression" /\ ChildIndex(path) \in {2, 3}

\* a ReturnValue yielded by a statement of a block (at any depth of blocks,
\* if consequences and alternatives) is returned as it is, the same object,
\* by the enclosing block, if and expression statement, with no statement
\* evaluated in between; a top-level statement that yields it stops
\* evalProgram, which returns the wrapped value
ReturnValueMovesUp ==
    \A k \in DOMAIN trace :
        Returns(k, RETURN_VALUE_OBJ) =>
           IF Len(trace[k].path) = 1
           THEN StoppedProgram(k) /\ SameObject(result, trace[k].val.Value)
           ELSE IsBlockPlace(trace[k].path) => PassedUpward(k)

\* C1: a ReturnValue moves up through every enclosing block unchanged, no
\* later statement of any enclosing block or of the program is evaluated, and
\* evalProgram returns the wrapped value: the source
\* if (10 > 1) { if (10 > 1) { return 10; } return 1; } gives Integer(10).
C1_ReturnPropagation ==
    /\ ReturnValueMovesUp
    /\ (toks = NestedReturnSource /\ epc = "done") =>
          result.type = INTEGER_OBJ /\ result.Value = 10

\* the same on syntax trees whose return statements carry their expression:
\* the tree of the nested-if example gives Integer(10)
ReturnPropagationOnTrees ==
    /\ ReturnValueMovesUp
    /\ (prog = NestedReturn /\ epc = "done") =>
          result.type = INTEGER_OBJ /\ result.Value = 10

\* the return of the inner block of the example tree has moved up two blocks
\* and stopped the program
ReturnPropagationOnTrees_Witness ==
    /\ prog = NestedReturn
    /\ epc = "done"
    /\ \E k \in DOMAIN trace : Returns(k, RETURN_VALUE_OBJ) /\ Len(trace[k].path) = 6
    /\ result.Value = 10

\* the places where an Error is sticky: an operand of an infix expression,
\* the operand of prefix "-", the condition of an if, the value of a return
\* or a let, a statement of a block
IsStickyPlace(path) ==
    LET parent == NodeAt(ParentPath(path))
    IN  \/ parent.kind = "InfixExpression"
        \/ parent.kind = "PrefixExpression" /\ parent.Operator = "-"
        \/ parent.kind = "IfExpression" /\ ChildIndex(path) = 1
        \/ parent.kind = "ReturnStatement"
        \/ parent.kind = "LetStatement"
        \/ parent.kind = "BlockStatement"

\* C2: when a sub-evaluation of an infix expression, a prefix "-", an if
\* condition, a return, a let or a block yields an Error, the construct returns
\* that same Error next, nothing else being evaluated in between; evalProgram
\* stops at the first top-level statement that yields an Error and returns it.
C2_ErrorStickiness ==
    \A k \in DOMAIN trace :
        Returns(k, ERROR_OBJ) =>
           IF Len(trace[k].path) = 1
           THEN StoppedProgram(k) /\ SameObject(result, trace[k].val)
           ELSE IsStickyPlace(trace[k].path) => PassedUpward(k)

\* the left operand of an infix expression yielded an Error, its right
\* operand was never evaluated, and the program ended with that Error
C2_Witness ==
    /\ epc = "done"
    /\ result.type = ERROR_OBJ
    /\ \E k \in DOMAIN trace :
          /\ Returns(k, ERROR_OBJ)
          /\ Len(trace[k].path) > 2
          /\ NodeAt(ParentPath(trace[k].path)).kind = "InfixExpression"
          /\ ChildIndex(trace[k].path) = 1
          /\ SameObject(result, trace[k].val)

\* the precedence ladder as the claim states it
LadderOf(op) ==
    CASE op \in {"==", "!="} -> 1
      [] op \in {"<", ">"} -> 2
      [] op \in {"+", "-"} -> 3
      [] op \in {"*", "/"} -> 4

IsOperand(t) == t.type \in {"IDENT", "INT", "TRUE", "FALSE"}
IsOperator(t) == t.type \in InfixOperators

OperandNode(t) ==
    CASE t.type = "IDENT" -> Identifier(t.lit)
      [] t.type = "INT" -> IntegerLiteral(t.digits[1])
      [] OTHER -> Boolean(t.type = "TRUE")

\* the source is a op1 b op2 c, with or without a closing ";"
IsTwoOperatorSource ==
    /\ Len(toks) \in {5, 6}
    /\ IsOperand(toks[1]) /\ IsOperator(toks[2]) /\ IsOperand(toks[3])
    /\ IsOperator(toks[4]) /\ IsOperand(toks[5])
    /\ Len(toks) = 6 => toks[6].type = ";"
    /\ \A i \in {1, 3, 5} : toks[i].type = "INT" => Len(toks[i].digits) = 1

TwoOperatorTree ==
    LET a == OperandNode(toks[1])
        b == OperandNode(toks[3])
        c == OperandNode(toks[5])
    IN  IF LadderOf(toks[2].type) >= LadderOf(toks[4].type)
        THEN InfixExpression(toks[4].lit, InfixExpression(toks[2].lit, a, b), c)
        ELSE InfixExpression(toks[2].lit, a, InfixExpression(toks[4].lit, b, c))

FivePlusFiveTimesTwo == <<T_INT(<<5>>), T_PLUS, T_INT(<<5>>), T_ASTERISK, T_INT(<<2>>)>>

\* C3: a op1 b op2 c parses to (a op1 b) op2 c when op1 binds at least as
\* tightly as op2 and to a op1 (b op2 c) otherwise, on the ladder
\* EQUALS < LESSGREATER < SUM < PRODUCT; 5 + 5 * 2 evaluates to 15.
C3_Precedence ==
    /\ (ppc = "done" /\ IsTwoOperatorSource) =>
          /\ errors = <<>>
          /\ Len(program) = 1
          /\ program[1] = ExpressionStatement(TwoOperatorTree)
    /\ (toks = FivePlusFiveTimesTwo /\ epc = "done") =>
          result.type = INTEGER_OBJ /\ result.Value = 15

\* 5 + 5 * 2 was parsed and evaluated
C3_Witness ==
    /\ toks = FivePlusFiveTimesTwo
    /\ epc = "done"
    /\ program[1].Expression.Operator = "+"
    /\ result.Value = 15

\* C4: ParseProgram reaches curToken = EOF and returns on every token stream:
\* it is never in a loop that reads EOF again and again.
C4_ParserTerminates ==
    ~(ppc = "skip" /\ curTokenIs(parser, "EOF") /\ nextToken(parser) = parser)

\* C5: no environment binds a ReturnValue or an Error, and the value
\* evalProgram returns is never a ReturnValue.
C5_NoControlValueBound ==
    /\ \A e \in DOMAIN envs : \A n \in DOMAIN envs[e].store :
          envs[e].store[n].type \notin {RETURN_VALUE_OBJ, ERROR_OBJ}
    /\ epc = "done" => result.type # RETURN_VALUE_OBJ

\* the type of the object a literal evaluates to
TypeOfLiteral(node) == IF node.kind = "IntegerLiteral" THEN INTEGER_OBJ ELSE BOOLEAN_OBJ

IsLiteral(node) == node.kind \in {"IntegerLiteral", "Boolean"}

\* the program is one infix expression on two literals
IsLiteralInfix ==
    /\ Len(prog) = 1
    /\ prog[1].kind = "ExpressionStatement"
    /\ prog[1].Expression.kind = "InfixExpression"
    /\ IsLiteral(prog[1].Expression.Left)
    /\ IsLiteral(prog[1].Expression.Right)

\* what the claim says op yields on two integers
IntegerResult(op, l, r) ==
    CASE op = "+" -> result.type = INTEGER_OBJ /\ result.Value = l + r
      [] op = "-" -> result.type = INTEGER_OBJ /\ result.Value = l - r
      [] op = "*" -> result.type = INTEGER_OBJ /\ result.Value = l * r
      [] op = "/" -> result.type = INTEGER_OBJ /\ result.Value = Quotient(l, r)
      [] op = "<" -> SameObject(result, nativeBoolToBooleanObject(l < r))
      [] op = ">" -> SameObject(result, nativeBoolToBooleanObject(l > r))
      [] op = "==" -> SameObject(result, nativeBoolToBooleanObject(l = r))
      [] op = "!=" -> SameObject(result, nativeBoolToBooleanObject(l # r))

\* C6: on two Integers an infix operator yields the arithmetic, comparison or
\* equality result; otherwise == and != yield TRUE or FALSE by identity;
\* otherwise operands of different types yield Error("type mismatch: L op R")
\* and operands of the same type Error("unknown operator: L op R").
C6_InfixDispatch ==
    (IsLiteralInfix /\ epc = "done") =>
        LET e == prog[1].Expression
            lt == TypeOfLiteral(e.Left)
            rt == TypeOfLiteral(e.Right)
        IN  IF lt = INTEGER_OBJ /\ rt = INTEGER_OBJ
            THEN IntegerResult(e.Operator, e.Left.Value, e.Right.Value)
            ELSE IF e.Operator = "=="
            THEN SameObject(result,
                    nativeBoolToBooleanObject(lt = rt /\ e.Left.Value = e.Right.Value))
            ELSE IF e.Operator = "!="
            THEN SameObject(result,
                    nativeBoolToBooleanObject(~(lt = rt /\ e.Left.Value = e.Right.Value)))
            ELSE IF lt # rt
            THEN result.type = ERROR_OBJ
                 /\ result.Message = <<"type mismatch: ", lt, e.Operator, rt>>
            ELSE result.type = ERROR_OBJ
                 /\ result.Message = <<"unknown operator: ", lt, e.Operator, rt>>

RECURSIVE WellFormed(_)
\* the node has every child it requires, and its lists are well formed
WellFormed(node) ==
    CASE node.kind \in {"Identifier", "IntegerLiteral", "Boolean"} -> TRUE
      [] node.kind = "ExpressionStatement" -> WellFormed(node.Expression)
      [] node.kind = "LetStatement" -> WellFormed(node.Value)
      [] node.kind = "ReturnStatement" -> WellFormed(node.ReturnValue)
      [] node.kind = "PrefixExpression" -> WellFormed(node.Right)
      [] node.kind = "InfixExpression" -> WellFormed(node.Left) /\ WellFormed(node.Right)
      [] node.kind = "IfExpression" ->
            /\ WellFormed(node.Condition)
            /\ WellFormed(node.Consequence)
            /\ node.Alternative.kind # "nil" => WellFormed(node.Alternative)
      [] node.kind = "BlockStatement" ->
            node.closed /\ \A k \in DOMAIN node.Statements : WellFormed(node.Statements[k])
      [] node.kind = "FunctionLiteral" ->
            /\ \A k \in DOMAIN node.ParamTypes : node.ParamTypes[k] = "IDENT"
            /\ WellFormed(node.Body)
      [] node.kind = "CallExpression" ->
            /\ WellFormed(node.Function)
            /\ \A k \in DOMAIN node.Arguments : WellFormed(node.Arguments[k])
      [] OTHER -> FALSE

\* C7: when ParseProgram returns with an empty error log, every node of the
\* program has its required children, every block is closed by its "}", every
\* parameter is an identifier and no call argument is nil.
C7_ParseErrorsComplete ==
    (ppc = "done" /\ errors = <<>>) => \A k \in DOMAIN program : WellFormed(program[k])

\* the expression that parseExpression(LOWEST) reads from token i on
ExpressionFrom(i) == parseExpression([pos |-> i, errors |-> <<>>, div |-> FALSE], LOWEST)

\* the source starts with "let IDENT = <expr> ;" or "return <expr> ;"
StartsWithLet(e) ==
    /\ Len(toks) >= 5
    /\ toks[1].type = "LET" /\ toks[2].type = "IDENT" /\ toks[3].type = "="
    /\ e = ExpressionFrom(4)
    /\ ~e.p.div /\ e.n.kind # "nil" /\ e.p.errors = <<>> /\ peekTokenIs(e.p, ";")
StartsWithReturn(e) ==
    /\ Len(toks) >= 3
    /\ toks[1].type = "RETURN"
    /\ e = ExpressionFrom(2)
    /\ ~e.p.div /\ e.n.kind # "nil" /\ e.p.errors = <<>> /\ peekTokenIs(e.p, ";")

\* C8: "let IDENT = <expr> ;" parses to Let(name, value) and "return <expr> ;"
\* to Return(value), value being <expr> as parseExpression(LOWEST) parses it,
\* and the statement ends on the ";" after the expression.
C8_LetReturnCarryExpression ==
    (ppc = "parsing" /\ Len(program) = 1) =>
        /\ StartsWithLet(ExpressionFrom(4)) =>
              /\ program[1].kind = "LetStatement"
              /\ program[1].Name = Identifier(toks[2].lit)
              /\ program[1].Value.kind = ExpressionFrom(4).n.kind
              /\ program[1].Value = ExpressionFrom(4).n
              /\ pos = nextToken(nextToken(ExpressionFrom(4).p)).pos
        /\ StartsWithReturn(ExpressionFrom(2)) =>
              /\ program[1].kind = "ReturnStatement"
              /\ program[1].ReturnValue.kind = ExpressionFrom(2).n.kind
              /\ program[1].ReturnValue = ExpressionFrom(2).n
              /\ pos = nextToken(nextToken(ExpressionFrom(2).p)).pos

\* the program is an integer literal divided by the literal 0
IsDivisionByZero ==
    /\ Len(prog) >= 1
    /\ prog[1].kind = "ExpressionStatement"
    /\ prog[1].Expression.kind = "InfixExpression"
    /\ prog[1].Expression.Operator = "/"
    /\ prog[1].Expression.Left.kind = "IntegerLiteral"
    /\ prog[1].Expression.Right.kind = "IntegerLiteral"
    /\ prog[1].Expression.Right.Value = 0

\* C9: an Integer divided by Integer(0) yields Error("division by zero") and
\* the evaluation is not aborted.
C9_DivisionByZero ==
    IsDivisionByZero =>
        /\ epc # "panic"
        /\ idx > 1 => result.type = ERROR_OBJ /\ result.Message = <<"division by zero">>

\* on syntax trees whose let and return statements carry their expression:
\* a call evaluates the body in a fresh environment whose outer link is the
\* environment the function was defined in, not the caller's; parameters and
\* the callee's lets are bound in the fresh environment only; one outer
\* ReturnValue is unwrapped, so a return in the callee does not end the caller
CallAndClosureOnTrees ==
    /\ \A a \in 0..MaxInt \cup {2}, b \in 0..MaxInt \cup {3} :
          (prog = NewAdder(a, b) /\ epc = "done") =>
             /\ result.type = INTEGER_OBJ /\ result.Value = a + b
             /\ envs[2].outer = 1 /\ envs[2].store["x"].Value = a
             /\ envs[3].outer = 2 /\ envs[3].store["y"].Value = b
             /\ DOMAIN envs[1].store = {"newAdder", "addTwo"}
    /\ \A a \in 0..MaxInt, b \in 0..MaxInt :
          (prog = Lexical(a, b) /\ idx >= 5) =>
             /\ idx = 5 => result.type = INTEGER_OBJ /\ result.Value = a
             /\ idx = 6 => result.type = INTEGER_OBJ /\ result.Value = a
             /\ envs[2].outer = 1 /\ envs[2].store["x"].Value = b
             /\ envs[3].outer = 1 /\ DOMAIN envs[3].store = {}
             /\ envs[1].store["x"].Value = a
    /\ \A a \in 0..MaxInt, b \in 0..MaxInt, c \in 0..MaxInt :
          (prog = ReturnInCallee(a, b, c) /\ idx >= 3) =>
             /\ epc = "run" => /\ result.type = INTEGER_OBJ
                             /\ result.Value = (IF c < 1 THEN a ELSE b) + b
             /\ epc = "done" => /\ result.type = ERROR_OBJ
                                /\ result.Message = <<"identifier not found: ", "z">>
             /\ DOMAIN envs[1].store = {"f"}
             /\ Len(envs) = 3
    /\ \A a \in 0..MaxInt, b \in 0..MaxInt, c \in 0..MaxInt :
          (prog = Shadowing(a, b, c) /\ idx >= 4) =>
             /\ idx = 4 => result.type = INTEGER_OBJ /\ result.Value = c
             /\ epc = "done" => result.type = INTEGER_OBJ /\ result.Value = a
             /\ envs[1].store["x"].Value = a
             /\ envs[2].outer = 1
             /\ envs[2].store["x"].Value = c /\ envs[2].store["y"].Value = c

\* the tree of let newAdder = fn(x) { fn(y) { x + y } };
\* let addTwo = newAdder(2); addTwo(3); has yielded 5
CallAndClosureOnTrees_Witness ==
    /\ prog = NewAdder(2, 3)
    /\ epc = "done"
    /\ result.Value = 5
    /\ Len(envs) = 3

\* C10: a call evaluates the body in a fresh environment whose outer link is
\* the environment captured where the function was defined, parameters are
\* bound in it only, and one outer ReturnValue is unwrapped: the source
\* let newAdder = fn(x) { fn(y) { x + y } }; let addTwo = newAdder(a);
\* addTwo(b); yields a + b (5 for 2 and 3), and in
\* fn(x) { return x; 9 }(a) + 1; the return ends the callee only, so the
\* program yields a + 1.
C10_CallAndClosure ==
    /\ CallAndClosureOnTrees
    /\ \A a \in 0..MaxInt \cup {2}, b \in 0..MaxInt \cup {3} :
          (toks = NewAdderSource(a, b) /\ epc \in {"done", "panic"}) =>
             /\ epc = "done"
             /\ result.type = INTEGER_OBJ /\ result.Value = a + b
    /\ \A a \in 0..MaxInt :
          (toks = ReturnInCalleeSource(a) /\ epc \in {"done", "panic"}) =>
             /\ epc = "done"
             /\ result.type = INTEGER_OBJ /\ result.Value = a + 1

\* the names the programs use
Names == {"x", "y", "z", "f", "g", "newAdder", "addTwo"}

\* the value of the last Eval call on the node at a path to have returned
LastExit(tr, path) ==
    LET ks == {k \in DOMAIN tr : tr[k].ev = "exit" /\ tr[k].path = path}
    IN  tr[CHOOSE k \in ks : \A j \in ks : j <= k].val

RECURSIVE BoundInChain(_, _, _)
\* some environment of the chain that starts at env binds the name
BoundInChain(es, env, name) ==
    \/ name \in DOMAIN es[env].store
    \/ es[env].outer # 0 /\ BoundInChain(es, es[env].outer, name)

\* two environments hold the same objects under the same names
SameBindings(a, b) ==
    /\ a.outer = b.outer
    /\ DOMAIN a.store = DOMAIN b.store
    /\ \A n \in DOMAIN a.store : SameObject(a.store[n], b.store[n])

\* evalProgram is about to evaluate a top-level statement of this kind
AboutToEvaluate(kind) == epc = "run" /\ idx <= Len(prog) /\ prog[idx].kind = kind

\* a top-level let whose right-hand side yields v: an Error ends the program
\* as its result and leaves the environment as it was; any other v is bound
\* to the name, and the identifier then yields v
LetBindsValue ==
    (AboutToEvaluate("LetStatement") /\ epc' # "panic") =>
        LET v == LastExit(trace', <<idx, 1>>)
            name == prog[idx].Name.Value
        IN  IF v.type = ERROR_OBJ
            THEN /\ SameBindings(envs'[1], envs[1])
                 /\ epc' = "done"
                 /\ result'.type = ERROR_OBJ /\ SameObject(result', v)
            ELSE /\ name \in DOMAIN envs'[1].store
                 /\ SameObject(envs'[1].store[name], v)
                 /\ SameObject(evalIdentifier(Identifier(name), 1,
                                   [evaluation EXCEPT !.envs = envs']).val, v)
                 /\ idx' = idx + 1

\* a top-level identifier yields the object its name is bound to, and the
\* "identifier not found" Error when nothing binds it
IdentifierLooksUp ==
    (AboutToEvaluate("ExpressionStatement") /\ prog[idx].Expression.kind = "Identifier") =>
        LET name == prog[idx].Expression.Value
            v == LastExit(trace', <<idx, 1>>)
        IN  IF BoundInChain(envs, 1, name)
            THEN SameObject(v, envs[1].store[name])
            ELSE /\ v.type = ERROR_OBJ
                 /\ v.Message = <<"identifier not found: ", name>>
                 /\ epc' = "done" /\ SameObject(result', v)

\* in every environment of the heap a name bound nowhere in the chain yields
\* the Error
UnboundYieldsError ==
    \A e \in DOMAIN envs : \A n \in Names :
        ~BoundInChain(envs, e, n) =>
            LET r == evalIdentifier(Identifier(n), e, evaluation)
            IN  r.val.type = ERROR_OBJ /\ r.val.Message = <<"identifier not found: ", n>>

\* C11: after Let(name, rhs) with rhs yielding a non-Error v the identifier
\* name yields v in that environment; when rhs yields an Error the
\* environment is unchanged and the Error is the statement's result; an
\* identifier bound nowhere in the chain yields
\* Error("identifier not found: <name>").
C11_LetAndIdentifier ==
    /\ [][LetBindsValue /\ IdentifierLooksUp]_vars
    /\ []UnboundYieldsError

\* let x = 1; has been evaluated and x is bound to Integer(1); the next
\* statement is the identifier x
C11_Witness ==
    /\ epc = "run" /\ idx = 2 /\ Len(prog) = 2
    /\ prog[1].kind = "LetStatement" /\ prog[1].Value.kind = "IntegerLiteral"
    /\ prog[2].kind = "ExpressionStatement" /\ prog[2].Expression.kind = "Identifier"
    /\ "x" \in DOMAIN envs[1].store
    /\ envs[1].store["x"].type = INTEGER_OBJ /\ envs[1].store["x"].Value = 1

\* the event at which the Eval call that returns at event k was entered
EnterOf(k) ==
    CHOOSE j \in 1..(k - 1) :
        /\ trace[j].ev = "enter" /\ trace[j].path = trace[k].path
        /\ \A i \in (j + 1)..(k - 1) : ~(trace[i].ev = "enter" /\ trace[i].path = trace[k].path)

\* the Eval calls on child c made, and those returned, during the call that
\* returns at event k
CallsOn(k, c) ==
    {i \in EnterOf(k)..k : trace[i].ev = "enter" /\ trace[i].path = Append(trace[k].path, c)}
ReturnsOn(k, c) ==
    {i \in EnterOf(k)..k : trace[i].ev = "exit" /\ trace[i].path = Append(trace[k].path, c)}
ValueOn(k, c) == trace[CHOOSE i \in ReturnsOn(k, c) : TRUE].val

\* NULL and FALSE, the two singletons
Falsy(v) == SameObject(v, NULL) \/ SameObject(v, FALSE_OBJ)

\* event k is the return of an Eval call on an if expression
ReturnsFromIf(k) ==
    trace[k].ev = "exit" /\ NodeAt(trace[k].path).kind = "IfExpression"

\* the if that returns at k evaluated exactly this branch (2 the
\* consequence, 3 the alternative) and yields its value
TookBranch(k, c) ==
    /\ Cardinality(CallsOn(k, c)) = 1
    /\ CallsOn(k, 5 - c) = {}
    /\ Cardinality(ReturnsOn(k, c)) = 1
    /\ SameObject(trace[k].val, ValueOn(k, c))

\* the if that returns at k evaluated no branch
TookNoBranch(k) == CallsOn(k, 2) = {} /\ CallsOn(k, 3) = {}

\* the if that returns at k evaluated its condition once, and then the one
\* branch that the truthiness of the condition's value selects
BranchByTruthiness(k) ==
    IF ~Falsy(ValueOn(k, 1)) THEN TookBranch(k, 2)
    ELSE IF NodeAt(trace[k].path).Alternative.kind # "nil" THEN TookBranch(k, 3)
    ELSE TookNoBranch(k) /\ SameObject(trace[k].val, NULL)

ConditionOnce(k) == Cardinality(CallsOn(k, 1)) = 1 /\ Cardinality(ReturnsOn(k, 1)) = 1

\* isTruthy on every value an Eval call has returned: falsy exactly for the
\* NULL and FALSE singletons
TruthinessRule ==
    \A k \in DOMAIN trace :
        (trace[k].ev = "exit" /\ ~IsNilObject(trace[k].val)) =>
            (isTruthy(trace[k].val) <=> ~Falsy(trace[k].val))

\* C12 as stated: exactly NULL and FALSE are falsy, every other value is
\* truthy; an if evaluates its condition once and then exactly one of the
\* consequence (truthy condition), the alternative (falsy, alternative
\* present) or neither, yielding NULL.
C12_AsStated ==
    /\ TruthinessRule
    /\ \A k \in DOMAIN trace :
          ReturnsFromIf(k) => ConditionOnce(k) /\ BranchByTruthiness(k)

\* C12, amended: the same for a condition that yields no Error; a condition
\* that yields an Error has neither block evaluated and the if yields that
\* Error.
C12_TruthinessAndIf ==
    /\ TruthinessRule
    /\ \A k \in DOMAIN trace :
          ReturnsFromIf(k) =>
             /\ ConditionOnce(k)
             /\ IF ValueOn(k, 1).type = ERROR_OBJ
                THEN TookNoBranch(k) /\ SameObject(trace[k].val, ValueOn(k, 1))
                ELSE BranchByTruthiness(k)

\* an if on Integer(0) has evaluated its consequence, and one on FALSE with
\* no alternative has yielded NULL
C12_Witness ==
    \E k \in DOMAIN trace :
        /\ ReturnsFromIf(k)
        /\ ValueOn(k, 1).type = INTEGER_OBJ /\ ValueOn(k, 1).Value = 0
        /\ TookBranch(k, 2)

\* the source is the decimal text of an integer: digits with no leading
\* zero, after a "-" for a negative one, with or without a closing ";"
IsDecimalSource ==
    LET body == IF Len(toks) > 0 /\ toks[Len(toks)].type = ";"
                THEN SubSeq(toks, 1, Len(toks) - 1) ELSE toks
    IN  \/ /\ Len(body) = 1 /\ body[1].type = "INT"
           /\ StripZeros(body[1].digits) = body[1].digits
           /\ DigitsLeq(body[1].digits, MaxInt64Digits)
        \/ /\ Len(body) = 2 /\ body[1].type = "-" /\ body[2].type = "INT"
           /\ StripZeros(body[2].digits) = body[2].digits
           /\ body[2].digits # <<0>>
           /\ DigitsLeq(body[2].digits, MinInt64Digits)

RECURSIVE DecimalValue(_, _)
DecimalValue(ds, acc) ==
    IF ds = <<>> THEN acc ELSE DecimalValue(Tail(ds), 10 * acc + ds[1])

\* the integer the source denotes (for the magnitudes the evaluator's values
\* cover here, those of at most nine digits)
DenotedInteger ==
    IF toks[1].type = "-" THEN 0 - DecimalValue(toks[2].digits, 0)
    ELSE DecimalValue(toks[1].digits, 0)

\* C13: the decimal source text of every integer n in [-2^63, 2^63 - 1], a
\* negative n being "-" followed by its digits, parses without error and
\* evaluates to Integer(n).
C13_IntegerLiteralRange ==
    IsDecimalSource =>
        /\ ppc = "done" => errors = <<>>
        /\ epc = "done" => result.type = INTEGER_OBJ /\ result.Value = DenotedInteger

\* the program is prefix "-" applied to a literal
IsMinusOfLiteral ==
    /\ Len(prog) = 1
    /\ prog[1].kind = "ExpressionStatement"
    /\ prog[1].Expression.kind = "PrefixExpression"
    /\ prog[1].Expression.Operator = "-"
    /\ IsLiteral(prog[1].Expression.Right)

\* C14: prefix "-" yields Integer(-v) on Integer(v) and
\* Error("unknown operator: -<type>") on any other non-Error value, so that
\* -true yields "unknown operator: -BOOLEAN"; it never yields NULL.
C14_PrefixMinus ==
    (IsMinusOfLiteral /\ epc = "done") =>
        LET e == prog[1].Expression.Right
        IN  /\ ~SameObject(result, NULL)
            /\ IF e.kind = "IntegerLiteral"
               THEN result.type = INTEGER_OBJ /\ result.Value = 0 - e.Value
               ELSE /\ result.type = ERROR_OBJ
                    /\ result.Message = <<"unknown operator: -", TypeOfLiteral(e)>>

\* event k is the return of an Eval call on a prefix "!" whose operand
\* yielded an Error
ReturnsFromBangOnError(k) ==
    /\ trace[k].ev = "exit"
    /\ NodeAt(trace[k].path).kind = "PrefixExpression"
    /\ NodeAt(trace[k].path).Operator = "!"
    /\ ReturnsOn(k, 1) # {}
    /\ ValueOn(k, 1).type = ERROR_OBJ

\* C15 as stated: prefix "!" on an operand that yields Error(m) is not
\* sticky: it yields the FALSE singleton.
C15_AsStated ==
    \A k \in DOMAIN trace : ReturnsFromBangOnError(k) => SameObject(trace[k].val, FALSE_OBJ)

\* C15, amended: prefix "!" on an operand that yields Error(m) is sticky like
\* prefix "-": it yields that same Error(m), and evalBangOperatorExpression
\* is not called.
C15_BangOnError ==
    \A k \in DOMAIN trace :
        ReturnsFromBangOnError(k) =>
            /\ trace[k].val.type = ERROR_OBJ
            /\ SameObject(trace[k].val, ValueOn(k, 1))
            /\ trace[k].val.Message = ValueOn(k, 1).Message

\* !y with y unbound has yielded the identifier-not-found Error
C15_Witness ==
    /\ epc = "done"
    /\ Len(prog) = 1 /\ idx = 1
    /\ prog[1].kind = "ExpressionStatement"
    /\ prog[1].Expression.kind = "PrefixExpression"
    /\ prog[1].Expression.Operator = "!"
    /\ \E k \in DOMAIN trace : ReturnsFromBangOnError(k) /\ trace[k].path = <<1, 1>>
    /\ result.type = ERROR_OBJ

\* the Eval call that returns at event k, on a prefix or an infix
\* expression, has passed its operand values to evalPrefixExpression or
\* evalInfixExpression: every operand was evaluated and none yielded an Error
PassedOperands(k) ==
    /\ trace[k].ev = "exit"
    /\ LET node == NodeAt(trace[k].path)
       IN  \/ /\ node.kind = "PrefixExpression"
              /\ ReturnsOn(k, 1) # {} /\ ValueOn(k, 1).type # ERROR_OBJ
           \/ /\ node.kind = "InfixExpression"
              /\ ReturnsOn(k, 1) # {} /\ ValueOn(k, 1).type # ERROR_OBJ
              /\ ReturnsOn(k, 2) # {} /\ ValueOn(k, 2).type # ERROR_OBJ

\* C16: no operand value passed to evalPrefixExpression or to
\* evalInfixExpression is a ReturnValue, also when the operand is an if whose
\* taken block executes a return, as in 1 + if (true) { return 2; }.
C16_ReturnValueNeverOperand ==
    \A k \in DOMAIN trace :
        PassedOperands(k) =>
            \A c \in {1, 2} :
                ReturnsOn(k, c) # {} => ValueOn(k, c).type # RETURN_VALUE_OBJ

\* a Boolean is the TRUE or the FALSE instance, a Null the NULL instance
Interned(v) ==
    /\ v.type = BOOLEAN_OBJ => SameObject(v, IF v.Value THEN TRUE_OBJ ELSE FALSE_OBJ)
    /\ v.type = NULL_OBJ => SameObject(v, NULL)

\* two Booleans or Nulls hold the same value
SameValue(l, r) == l.type = r.type /\ (l.type = NULL_OBJ \/ l.Value = r.Value)

\* event k is the return of == or != on two operands that are Booleans or
\* Nulls
ComparesInterned(k) ==
    /\ PassedOperands(k)
    /\ NodeAt(trace[k].path).kind = "InfixExpression"
    /\ NodeAt(trace[k].path).Operator \in {"==", "!="}
    /\ ValueOn(k, 1).type \in {BOOLEAN_OBJ, NULL_OBJ}
    /\ ValueOn(k, 2).type \in {BOOLEAN_OBJ, NULL_OBJ}

\* C17: every Boolean an evaluation produces is the TRUE or the FALSE
\* instance and every Null the NULL instance, so == and != on Booleans and
\* Nulls, which compare identities, answer as a comparison of the values
\* would.
C17_SingletonInterning ==
    /\ \A k \in DOMAIN trace : trace[k].ev = "exit" => Interned(trace[k].val)
    /\ Interned(result)
    /\ \A e \in DOMAIN envs : \A n \in DOMAIN envs[e].store : Interned(envs[e].store[n])
    /\ \A k \in DOMAIN trace :
          ComparesInterned(k) =>
             SameObject(trace[k].val,
                 IF (NodeAt(trace[k].path).Operator = "==") = SameValue(ValueOn(k, 1), ValueOn(k, 2))
                 THEN TRUE_OBJ ELSE FALSE_OBJ)

\* if (false) { 1 } == if (false) { 2 } has yielded TRUE: both sides are the
\* NULL instance
C17_Witness ==
    /\ prog = <<ES(InfixExpression("==", If1(Boolean(FALSE), <<ES(Lit(1))>>),
                                         If1(Boolean(FALSE), <<ES(Lit(2))>>)))>>
    /\ epc = "done"
    /\ SameObject(result, TRUE_OBJ)
    /\ \E k \in DOMAIN trace : ComparesInterned(k) /\ SameObject(ValueOn(k, 1), ValueOn(k, 2))


----------------------------------------------------------------------------
\* a let statement whose value is a macro literal
IsMacroLet(s) == s.kind = "LetStatement" /\ s.Value.kind = "MacroLiteral"

\* the original top-level statements that are no macro definitions, in
\* their original order
KeptStatements == SelectSeq(original, LAMBDA s : ~IsMacroLet(s))

\* the positions of the macro definitions of a name in the original program
DefinitionsOf(name) ==
    {i \in DOMAIN original : IsMacroLet(original[i]) /\ original[i].Name.Value = name}

MacroNames == {name \in {"m", "n", "x"} : DefinitionsOf(name) # {}}

\* the macro literal of the last definition of a name
LastLiteral(name) ==
    LET last == CHOOSE i \in DefinitionsOf(name) : \A j \in DefinitionsOf(name) : j <= i
    IN  original[last].Value

\* C18: when DefineMacros(program, env) has returned, program.Statements is
\* exactly the original statements that are not a let of a macro literal,
\* in their original order, and env binds exactly the removed let-names,
\* each to a Macro with the parameters and the body of the last literal
\* defined under that name and with env as its environment.
C18_MacroPrePass ==
    mpc = "done" =>
        /\ prog = KeptStatements
        /\ DOMAIN envs[1].store = MacroNames
        /\ \A name \in MacroNames :
               LET macro == envs[1].store[name]
               IN  /\ macro.type = MACRO_OBJ
                   /\ macro.Parameters = LastLiteral(name).Parameters
                   /\ macro.Body = LastLiteral(name).Body
                   /\ macro.Env = 1

\* DefineMacros has returned on a program whose first and last statements
\* are macro definitions, with two adjacent definitions, one name defined
\* twice with different literals, and a statement that stays
C18_Witness ==
    /\ mpc = "done"
    /\ Len(original) >= 3
    /\ IsMacroLet(original[1])
    /\ IsMacroLet(original[Len(original)])
    /\ \E i \in 1..(Len(original) - 1) : IsMacroLet(original[i]) /\ IsMacroLet(original[i + 1])
    /\ \E name \in MacroNames :
           \E i, j \in DefinitionsOf(name) : i < j /\ original[i].Value # original[j].Value
    /\ Len(prog) >= 1

====
